---- MODULE Spec2Model ----
(***************************************************************************)
(* Motify: a browser playlist manager on top of the Spotify Web API.       *)
(*                                                                         *)
(* The module models                                                       *)
(*   - the SpotifyAPI client of src/lib/spotify.ts: token storage, token   *)
(*     refresh, the makeRequest wrapper and the paginated getUserPlaylists *)
(*     (specification SpecReq);                                            *)
(*   - the playback and track operations of src/lib/utils.ts: playTrack,   *)
(*     togglePlayPause, playNextTrack/playPreviousTrack, removeTrack,      *)
(*     moveTrack, copyTrack, together with the stores they act on and the  *)
(*     handleAPIError wrapper of the components (specifications SpecOps    *)
(*     for the track operations and SpecNav for the playback);             *)
(*   - the token refresh, the TokenManager and the InitializationService   *)
(*     (SpecAuth, SpecRefresh, SpecTimer, SpecInit);                       *)
(*   - the WebPlaybackService of src/lib/webPlayback.ts (SpecWeb);         *)
(*   - the Player component and the repeat mode store: position polls,     *)
(*     seeking, the advance at the end of a track, shuffle, reloads        *)
(*     (SpecPlayer, SpecShuffle, SpecRepeat).                              *)
(*                                                                         *)
(* The Spotify servers are the environment: every HTTP response is chosen  *)
(* nondeterministically (served, served with an unparsable body, 401, 500).*)
(***************************************************************************)
EXTENDS Integers, Sequences, FiniteSets, TLC

\* ------------------------------------------------------------------------
\* Bounds of the model
\* ------------------------------------------------------------------------
MaxIssued == 2
MaxTime == 2
ExpiresIn == 1
MaxUserPlaylists == 5
PageSize == 2

\* ------------------------------------------------------------------------
\* Program constants
\* ------------------------------------------------------------------------
MaxPlaylistPages == 20

\* ------------------------------------------------------------------------
\* Values
\* ------------------------------------------------------------------------
NoToken == 0
NoTime == -1
NoTrack == 0
NoPlaylist == 0
NoUri == 0
NoUrl == [path |-> <<>>, offset |-> 0]

ApiBase == <<"v1">>

VARIABLES
    accessToken,        \* SpotifyAPI.accessToken
    localStorage,       \* the four spotify_* keys of window.localStorage
    issued,             \* number of access tokens the accounts service has issued
    now,                \* Date.now()
    server,             \* what the Spotify servers hold for this user
    sent,               \* HTTP exchanges of the handler that ran last
    call,               \* the SpotifyAPI call that ran last: name, request, outcome
    gp,                 \* locals of the getUserPlaylists call in progress
    playlists,          \* store playlists: the playlist objects loaded at start
    selectedPlaylist,   \* store selectedPlaylist
    targetPlaylist,     \* store targetPlaylist
    currentTracks,      \* store currentTracks
    currentTrack,       \* store currentTrack
    currentTrackIndex,  \* store currentTrackIndex (0-based, -1 for none)
    isPlaying,          \* store isPlaying
    playbackPosition,   \* store playbackPosition
    deviceId,           \* webPlaybackService.getDeviceId() is non-null
    unplayable,         \* ids of the tracks whose attributes make them unplayable
    toasts,             \* types of the toasts the handler that ran last has added
    mv,                 \* locals of the moveTrack call in progress
    last,               \* the handler that ran last and what it returned
    handled,            \* number of user actions and player events handled so far
    refreshing,         \* per caller of ensureValidToken: the refresh request in flight
    refreshLog,         \* the refresh requests sent and how each one ended
    init,               \* InitializationService: isInitialized, isInitializing, promise
    runs,               \* the performInitialization / handleAuthentication calls in progress
    user,               \* store user
    isAuthenticated,    \* store isAuthenticated
    tm,                 \* TokenManager: checkInterval, isVisible
    doc,                \* document.hidden, visibilitychange listeners, live intervals
    ev,                 \* the service call or browser event that ran last, and
                        \* whether reset() / destroy() has been called since
    wp,                 \* WebPlaybackService: player, isInitialized, the SDK's players
    repeatMode,         \* store repeatMode
    repeatStorage,      \* localStorage item 'motify-repeat-mode'
    isShuffleOn,        \* store isShuffleOn
    originalTrackOrder, \* store originalTrackOrder
    trackDuration,      \* store trackDuration
    cmp,                \* Player component: isDragging, hasHandledEnd, lastTracked...
    polls,              \* the position polls that await their answer
    ui                  \* the Player event that ran last

reqVars == <<accessToken, localStorage, issued, now, server, sent, call, gp>>

storeVars == <<playlists, selectedPlaylist, targetPlaylist, currentTracks, currentTrack,
               currentTrackIndex, isPlaying, playbackPosition>>

opsVars == <<playlists, selectedPlaylist, targetPlaylist, currentTracks, currentTrack,
             currentTrackIndex, isPlaying, playbackPosition, deviceId, unplayable,
             toasts, mv, last, handled>>

vars == <<accessToken, localStorage, issued, now, server, sent, call, gp,
          playlists, selectedPlaylist, targetPlaylist, currentTracks, currentTrack,
          currentTrackIndex, isPlaying, playbackPosition, deviceId, unplayable,
          toasts, mv, last, handled,
          refreshing, refreshLog, init, runs, user, isAuthenticated, tm, doc, ev,
          wp, repeatMode, repeatStorage, isShuffleOn, originalTrackOrder, trackDuration,
          cmp, polls, ui>>

uiVars == <<wp, repeatMode, repeatStorage, isShuffleOn, originalTrackOrder, trackDuration,
            cmp, polls, ui>>

svcVars == <<refreshing, refreshLog, init, runs, user, isAuthenticated, tm, doc, ev>>

NoPlaylistObject == [id |-> NoPlaylist, total |-> 0]

MvIdle == [active |-> FALSE, track |-> NoTrack, tracks |-> <<>>, source |-> NoPlaylist,
           target |-> NoPlaylist, isCurrentlyPlaying |-> FALSE, currentIndex |-> -1,
           trackWasAdded |-> FALSE]

NoHandler == [op |-> "none", track |-> NoTrack, returned |-> <<>>,
              ok |-> TRUE, apiFailed |-> FALSE, played |-> NoTrack, playResult |-> FALSE,
              playFailed |-> FALSE, confirmed |-> FALSE, found |-> -1]

\* the callers of spotifyAPI.ensureValidToken(): an API request (makeRequest),
\* the periodic token check (checkTokenAndReconnect), the SDK (getOAuthToken)
Callers == {"request", "timer", "sdk"}

\* the concurrent calls of performInitialization / handleAuthentication
MaxRuns == 2
RunIds == 1..MaxRuns

NoRun == 0
NoInterval == 0
NoRunState == [pc |-> "done", kind |-> "none", url |-> NoUrl, allPlaylists |-> <<>>,
               pageCount |-> 0]
NoEvent == [op |-> "none", started |-> NoRun, returned |-> "none", checks |-> 0,
            afterReset |-> FALSE, destroyed |-> FALSE]

\* the services as constructed: initializationService.ts 10-12, tokenManager.ts 5-6
SvcAtRest ==
    /\ refreshing = [c \in Callers |-> NoToken]
    /\ refreshLog = <<>>
    /\ init = [isInitialized |-> FALSE, isInitializing |-> FALSE,
               initializationPromise |-> NoRun]
    /\ runs = [r \in RunIds |-> NoRunState]
    /\ user = FALSE
    /\ isAuthenticated = FALSE
    /\ tm = [checkInterval |-> NoInterval, isVisible |-> TRUE]
    /\ doc = [hidden |-> FALSE, listeners |-> {}, intervals |-> {}]
    /\ ev = NoEvent

NoPlayer == 0
NoMode == "none"
NoUi == [op |-> "none", near |-> FALSE, advanced |-> 0, disconnected |-> FALSE,
         unshuffled |-> <<>>, direct |-> FALSE]

CmpAtRest == [isDragging |-> FALSE, hasHandledEnd |-> FALSE, lastTrackedTrackId |-> NoTrack,
              lastTrackedRepeatMode |-> NoMode, lastSyncedMode |-> NoMode]

\* the web playback service, the Player component and its stores as constructed,
\* with nothing stored under 'motify-repeat-mode'
UiAtRest ==
    /\ wp = [player |-> NoPlayer, isInitialized |-> FALSE, connected |-> {},
             readying |-> {}]
    /\ repeatMode = "off"
    /\ repeatStorage = "missing"
    /\ isShuffleOn = FALSE
    /\ originalTrackOrder = <<>>
    /\ trackDuration = 0
    /\ cmp = CmpAtRest
    /\ polls = {}
    /\ ui = NoUi

\* the stores and services before the application has loaded anything
OpsAtRest ==
    /\ SvcAtRest
    /\ UiAtRest
    /\ playlists = <<>>
    /\ selectedPlaylist = NoPlaylistObject
    /\ targetPlaylist = NoPlaylistObject
    /\ currentTracks = <<>>
    /\ currentTrack = NoTrack
    /\ currentTrackIndex = -1
    /\ isPlaying = FALSE
    /\ playbackPosition = 0
    /\ deviceId = FALSE
    /\ unplayable = {}
    /\ toasts = <<>>
    /\ mv = MvIdle
    /\ last = NoHandler
    /\ handled = 0

\* ------------------------------------------------------------------------
\* The client state threaded through the asynchronous calls of one handler
\* ------------------------------------------------------------------------
World ==
    [accessToken |-> accessToken, localStorage |-> localStorage,
     issued |-> issued, server |-> server, sent |-> <<>>]

\* ------------------------------------------------------------------------
\* Requests, responses, bodies
\* ------------------------------------------------------------------------
Request(method, path, offset, pid, track) ==
    [method |-> method, path |-> path, offset |-> offset, pid |-> pid, track |-> track]

Body(kind) ==
    [kind |-> kind, hasItems |-> FALSE, items |-> <<>>, next |-> NoUrl,
     id |-> NoPlaylist, total |-> 0, track |-> NoTrack, playing |-> FALSE]

EmptyText == Body("empty")
GarbledText == Body("garbled")
EmptyObject == Body("object")

NoError == [name |-> "", status |-> 0]
Error(name, status) == [name |-> name, status |-> status]

Responses == {"serve", "garbled", "401", "500"}
RefreshResponses == {"fail", "ok", "rotate"}

\* One scenario fixes what the servers answer during one makeRequest call:
\* pre - the accounts service, to the refresh ensureValidToken may start,
\* r1  - the API, to the request,
\* rf  - the accounts service, to the refresh that follows a 401,
\* r2  - the API, to the retried request.
\* Answers that are never asked for are fixed to "fail" / "500".
Scenarios ==
    {sc \in [pre : RefreshResponses, r1 : Responses, rf : RefreshResponses, r2 : Responses] :
        /\ (sc.r1 # "401" => sc.rf = "fail")
        /\ (sc.rf = "fail" => sc.r2 = "500")}


\* ------------------------------------------------------------------------
\* Tracks.  A track is identified by its id; its uri is spotify:track:<id>.
\* A relinked track carries linked_from, the uri the playlist really stores.
\* ------------------------------------------------------------------------
NumTracks == 3
LinkOffset == 10
TrackIds == 1..NumTracks
RelinkedTracks == {NumTracks}

uri(track) == track

linked_from(track) == IF track \in RelinkedTracks THEN track + LinkOffset ELSE NoUri

getOperationalUri(track) ==
    IF linked_from(track) # NoUri THEN linked_from(track) ELSE uri(track)

isTrackRelinked(track) == linked_from(track) # NoUri

\* The track the API presents for a stored uri (market=from_token relinking).
TrackOfUri(u) == IF u > LinkOffset THEN u - LinkOffset ELSE u

\* items.map(item => item.track)
TracksOfUris(s) == [i \in DOMAIN s |-> TrackOfUri(s[i])]

Range(s) == {s[i] : i \in DOMAIN s}

\* ------------------------------------------------------------------------
\* The Spotify Web API, as far as the client relies on it
\* ------------------------------------------------------------------------
PlaylistsRoute == <<"me", "playlists">>
UserRoute == <<"me">>
TracksRoute == <<"playlists", "tracks">>
PlaylistRoute == <<"playlists">>
PlayRoute == <<"me", "player", "play">>
PauseRoute == <<"me", "player", "pause">>
PlayerRoute == <<"me", "player">>
DevicesRoute == <<"me", "player", "devices">>
RepeatRoute == <<"me", "player", "repeat">>
SeekRoute == <<"me", "player", "seek">>

Min(a, b) == IF a < b THEN a ELSE b

PageOf(all, offset) ==
    IF offset >= Len(all) THEN <<>>
    ELSE SubSeq(all, offset + 1, Min(Len(all), offset + PageSize))

NotFound(srv) == [server |-> srv, status |-> 404, text |-> GarbledText]

\* What the API does with a request that reaches it with an accepted token.
Serve(srv, urlPath, req) ==
    IF Len(urlPath) = 0 \/ Head(urlPath) # "v1" THEN NotFound(srv)
    ELSE LET route == Tail(urlPath) IN
    IF req.method = "GET" /\ route = PlaylistsRoute THEN
        [server |-> srv, status |-> 200,
         text |-> [Body("page") EXCEPT
            !.hasItems = TRUE,
            !.items = PageOf(srv.userPlaylists, req.offset),
            !.next = IF req.offset + PageSize < Len(srv.userPlaylists)
                     THEN [path |-> ApiBase \o PlaylistsRoute, offset |-> req.offset + PageSize]
                     ELSE NoUrl]]
    ELSE IF req.method = "GET" /\ route = UserRoute THEN
        [server |-> srv, status |-> 200, text |-> Body("user")]
    ELSE IF route \in {TracksRoute, PlaylistRoute} /\ req.pid \notin DOMAIN srv.lists THEN
        NotFound(srv)
    ELSE IF req.method = "GET" /\ route = TracksRoute THEN
        [server |-> srv, status |-> 200,
         text |-> [Body("page") EXCEPT
            !.hasItems = TRUE,
            !.items = TracksOfUris(srv.lists[req.pid])]]
    ELSE IF req.method = "GET" /\ route = PlaylistRoute THEN
        [server |-> srv, status |-> 200,
         text |-> [Body("playlist") EXCEPT
            !.id = req.pid, !.total = Len(srv.lists[req.pid])]]
    ELSE IF req.method = "POST" /\ route = TracksRoute THEN
        [server |-> [srv EXCEPT !.lists[req.pid] = Append(@, req.track)],
         status |-> 201, text |-> Body("snapshot")]
    ELSE IF req.method = "DELETE" /\ route = TracksRoute THEN
        [server |-> [srv EXCEPT !.lists[req.pid] =
                        LET Other(u) == u # req.track IN SelectSeq(@, Other)],
         status |-> 200, text |-> Body("snapshot")]
    ELSE IF req.method = "PUT" /\ route = PlayRoute THEN
        [server |-> IF req.track = NoUri THEN [srv EXCEPT !.paused = FALSE]
                    ELSE [srv EXCEPT !.nowPlaying = req.track, !.paused = FALSE],
         status |-> 204, text |-> EmptyText]
    ELSE IF req.method = "PUT" /\ route = PauseRoute THEN
        [server |-> [srv EXCEPT !.paused = TRUE], status |-> 204, text |-> EmptyText]
    ELSE IF req.method = "GET" /\ route = PlayerRoute THEN
        IF srv.nowPlaying = NoUri
        THEN [server |-> srv, status |-> 204, text |-> EmptyText]
        ELSE [server |-> srv, status |-> 200,
              text |-> [Body("state") EXCEPT
                  !.track = srv.nowPlaying, !.playing = ~srv.paused]]
    ELSE IF req.method = "GET" /\ route = DevicesRoute THEN
        [server |-> srv, status |-> 200, text |-> Body("devices")]
    ELSE IF req.method = "PUT" /\ route \in {RepeatRoute, SeekRoute} THEN
        [server |-> srv, status |-> 204, text |-> EmptyText]
    ELSE NotFound(srv)

IsOk(status) == status >= 200 /\ status <= 299

\* fetch(`https://api.spotify.com/v1${endpoint}`, {Authorization: Bearer token})
\* answered as the scenario says; the exchange is appended to the log.
fetch(w, urlPath, req, token, resp) ==
    LET Answer(served) ==
            IF resp = "401" THEN [server |-> w.server, status |-> 401, text |-> GarbledText]
            ELSE IF resp = "500" THEN [server |-> w.server, status |-> 500, text |-> GarbledText]
            ELSE IF resp = "garbled" /\ IsOk(served.status)
                 THEN [served EXCEPT !.text = GarbledText]
            ELSE served
        Response(answer) ==
            [w |-> [w EXCEPT !.server = answer.server,
                             !.sent = Append(@, [to |-> "api", path |-> urlPath, req |-> req,
                                                 token |-> token, status |-> answer.status,
                                                 text |-> answer.text])],
             status |-> answer.status, text |-> answer.text]
    IN Response(Answer(Serve(w.server, urlPath, req)))

\* text ? JSON.parse(text) : {}
ParseBody(text) ==
    IF text.kind = "empty" THEN [ok |-> TRUE, value |-> EmptyObject]
    ELSE IF text.kind = "garbled" THEN [ok |-> FALSE, value |-> EmptyObject]
    ELSE [ok |-> TRUE, value |-> text]

\* ------------------------------------------------------------------------
\* SpotifyAPI: token handling
\* ------------------------------------------------------------------------
\* setAccessToken(token)
setAccessToken(w, token) ==
    [w EXCEPT !.accessToken = token, !.localStorage.spotify_access_token = token]

\* a token that still counts as valid at the instant it expires
isTokenExpired_Late(w, t) ==
    LET expiresAt == w.localStorage.spotify_token_expires_at
    IN IF expiresAt = NoTime THEN TRUE ELSE t > expiresAt

\* isTokenExpired(): a missing expiry counts as expired
isTokenExpired(w, t) ==
    LET expiresAt == w.localStorage.spotify_token_expires_at
    IN IF expiresAt = NoTime THEN TRUE ELSE t >= expiresAt

\* logout()
logout(w) ==
    [w EXCEPT !.accessToken = NoToken,
              !.localStorage = [spotify_access_token |-> NoToken,
                                spotify_refresh_token |-> NoToken,
                                spotify_token_expires_at |-> NoTime,
                                spotify_code_verifier |-> FALSE]]

\* refreshAccessToken(): throws (ok = FALSE) or returns the new access token.
\* rr is the answer of the accounts service: "fail", "ok" (no refresh_token in
\* the answer) or "rotate" (a new refresh_token in the answer).
refreshAccessToken(w, t, rr) ==
    LET refreshToken == w.localStorage.spotify_refresh_token IN
    IF refreshToken = NoToken THEN [ok |-> FALSE, w |-> w, token |-> NoToken]
    ELSE
        LET fresh == w.issued + 1
            Stored(w1) ==
                [(IF rr = "rotate"
                  THEN [w1 EXCEPT !.localStorage.spotify_refresh_token = fresh]
                  ELSE w1)
                 EXCEPT !.localStorage.spotify_token_expires_at = t + ExpiresIn]
            Answered(asked) ==
                IF rr = "fail" THEN [ok |-> FALSE, w |-> asked, token |-> NoToken]
                ELSE [ok |-> TRUE,
                      w |-> Stored(setAccessToken([asked EXCEPT !.issued = fresh], fresh)),
                      token |-> fresh]
        IN Answered([w EXCEPT !.sent = Append(@,
                        [to |-> "accounts", path |-> <<"api", "token">>,
                         req |-> Request("POST", <<"api", "token">>, 0, NoPlaylist, NoUri),
                         token |-> refreshToken,
                         status |-> IF rr = "fail" THEN 400 ELSE 200,
                         text |-> IF rr = "fail" THEN GarbledText
                                  ELSE [Body("token") EXCEPT !.id = fresh]])])

\* ensureValidToken(): the token to use, or NoToken (null) after a logout
ensureValidToken(w, t, rr) ==
    LET inMemory == w.accessToken
        token == IF inMemory = NoToken THEN w.localStorage.spotify_access_token ELSE inMemory
        w1 == IF inMemory = NoToken /\ token # NoToken THEN [w EXCEPT !.accessToken = token] ELSE w
        Refreshed(r) == IF r.ok THEN [w |-> r.w, token |-> r.token]
                        ELSE [w |-> logout(r.w), token |-> NoToken]
    IN IF token # NoToken /\ isTokenExpired(w1, t)
       THEN Refreshed(refreshAccessToken(w1, t, rr))
       ELSE [w |-> w1, token |-> token]

\* ------------------------------------------------------------------------
\* SpotifyAPI.makeRequest
\* ------------------------------------------------------------------------
Thrown(w, name, status) ==
    [w |-> w, ok |-> FALSE, value |-> EmptyObject, err |-> Error(name, status)]

Returned(w, value) == [w |-> w, ok |-> TRUE, value |-> value, err |-> NoError]

\* `https://api.spotify.com/v1${endpoint}`
UrlOf(endpoint) == ApiBase \o endpoint.path

\* a retry that sends the token of the first attempt again
RetryToken_Stale(token, refreshedToken) == token

\* the Authorization header of the retried request
RetryToken(token, refreshedToken) == refreshedToken

\* what follows a retry that was not ok, or a throw inside the retry block
AfterFailedRetry(w) == Thrown(logout(w), "Authentication failed", 0)

\* Each await of the method is an operator applied to the value awaited.
makeRequest(w, t, endpoint, sc) ==
    LET \* if (retryResponse.ok) return JSON.parse(text), else logout and throw
        Retried(retryResponse) ==
            LET parsed == ParseBody(retryResponse.text)
            IN IF IsOk(retryResponse.status) /\ parsed.ok
               THEN Returned(retryResponse.w, parsed.value)
               ELSE AfterFailedRetry(retryResponse.w)
        \* const refreshedToken = await this.refreshAccessToken()
        Refreshed(refreshed, token) ==
            IF ~refreshed.ok THEN AfterFailedRetry(refreshed.w)
            ELSE Retried(fetch(refreshed.w, UrlOf(endpoint), endpoint,
                               RetryToken(token, refreshed.token), sc.r2))
        \* const response = await fetch(...)
        Responded(response, token) ==
            IF ~IsOk(response.status) THEN
              IF response.status = 401
              THEN Refreshed(refreshAccessToken(response.w, t, sc.rf), token)
              ELSE Thrown(response.w, "Spotify API error", response.status)
            ELSE
              LET parsed == ParseBody(response.text)
              IN IF parsed.ok THEN Returned(response.w, parsed.value)
                 ELSE Thrown(response.w, "SyntaxError", 0)
        \* const token = await this.ensureValidToken()
        Authorized(e) ==
            IF e.token = NoToken THEN Thrown(e.w, "No access token available", 0)
            ELSE Responded(fetch(e.w, UrlOf(endpoint), endpoint, e.token, sc.r1), e.token)
    IN Authorized(ensureValidToken(w, t, sc.pre))

\* error.message.includes('401'), for the messages makeRequest and its
\* callers produce: only `Spotify API error: ${status}` carries a number.
MessageIncludes401(err) == err.name = "Spotify API error" /\ err.status = 401

\* A scenario is canonical for a call when it fixes the answer to a refresh
\* that ensureValidToken will not start.
NeedsRefresh(w, t) ==
    LET token == IF w.accessToken = NoToken THEN w.localStorage.spotify_access_token
                 ELSE w.accessToken
    IN token # NoToken /\ isTokenExpired(w, t) /\ w.localStorage.spotify_refresh_token # NoToken

ScenariosFor(w, t) == {sc \in Scenarios : NeedsRefresh(w, t) \/ sc.pre = "fail"}

\* ------------------------------------------------------------------------
\* SpotifyAPI.getUserPlaylists: one action per iteration of its while loop
\* ------------------------------------------------------------------------
GpIdle == [state |-> "idle", url |-> NoUrl, allPlaylists |-> <<>>, pageCount |-> 0,
           faults |-> 0]

\* new URL(response.next): path = nextUrl.pathname; url = path + nextUrl.search
NextPageEndpoint(next) == [path |-> next.path, offset |-> next.offset]

Commit(w) ==
    /\ accessToken' = w.accessToken
    /\ localStorage' = w.localStorage
    /\ issued' = w.issued
    /\ server' = w.server

GetUserPlaylistsStart ==
    /\ gp.state # "running"
    /\ gp' = [GpIdle EXCEPT !.state = "running",
                            !.url = [path |-> PlaylistsRoute, offset |-> 0]]
    /\ sent' = <<>>
    /\ call' = [fn |-> "getUserPlaylists", ok |-> FALSE, value |-> EmptyObject,
                err |-> NoError, before |-> localStorage]
    /\ UNCHANGED <<accessToken, localStorage, issued, now, server>>
    /\ UNCHANGED <<opsVars, svcVars, uiVars>>

GetUserPlaylistsPage ==
    /\ gp.state = "running"
    /\ \E sc \in ScenariosFor(World, now) :
        \E response \in {makeRequest(World, now,
                            Request("GET", gp.url.path, gp.url.offset, NoPlaylist, NoUri),
                            sc)} :
        LET hadToken == ensureValidToken(World, now, sc.pre).token # NoToken
            pageCount == gp.pageCount + 1
            faults == gp.faults + (IF sc.r1 = "serve" /\ hadToken THEN 0 ELSE 1)
            allPlaylists == gp.allPlaylists \o response.value.items
            url == IF response.value.next # NoUrl
                   THEN NextPageEndpoint(response.value.next) ELSE NoUrl
        IN /\ response.w.issued <= MaxIssued
           /\ Commit(response.w)
           /\ sent' = sent \o response.w.sent
           /\ IF ~response.ok THEN
                 \* the error of makeRequest is rethrown
                 /\ gp' = [gp EXCEPT !.state = "threw", !.pageCount = pageCount,
                                     !.faults = faults]
                 /\ call' = [call EXCEPT !.ok = FALSE, !.err = response.err]
              ELSE IF ~response.value.hasItems THEN
                 /\ gp' = [gp EXCEPT !.state = "threw", !.pageCount = pageCount,
                                     !.faults = faults]
                 /\ call' = [call EXCEPT !.ok = FALSE,
                                 !.err = Error("Invalid response format from Spotify API", 0)]
              ELSE
                 /\ gp' = [state |-> IF url = NoUrl \/ pageCount > MaxPlaylistPages
                                     THEN "returned" ELSE "running",
                           url |-> url, allPlaylists |-> allPlaylists,
                           pageCount |-> pageCount, faults |-> faults]
                 /\ call' = [call EXCEPT !.ok = (url = NoUrl \/ pageCount > MaxPlaylistPages)]
    /\ UNCHANGED now
    /\ UNCHANGED <<opsVars, svcVars, uiVars>>

\* A direct call of makeRequest: getCurrentUser, getPlaylist, getPlaybackState
DirectEndpoints ==
    {Request("GET", UserRoute, 0, NoPlaylist, NoUri),
     Request("GET", PlaylistRoute, 0, 1, NoUri),
     Request("GET", PlayerRoute, 0, NoPlaylist, NoUri)}

MakeRequest ==
    /\ gp.state # "running"
    /\ \E endpoint \in DirectEndpoints, sc \in ScenariosFor(World, now) :
        \E response \in {makeRequest(World, now, endpoint, sc)} :
           /\ response.w.issued <= MaxIssued
           /\ Commit(response.w)
           /\ sent' = response.w.sent
           /\ call' = [fn |-> "makeRequest", ok |-> response.ok, value |-> response.value,
                       err |-> response.err, before |-> localStorage]
    /\ UNCHANGED <<now, gp>>
    /\ UNCHANGED <<opsVars, svcVars, uiVars>>

\* time passes
Tick ==
    /\ now < MaxTime
    /\ now' = now + 1
    /\ UNCHANGED <<accessToken, localStorage, issued, server, sent, call, gp>>
    /\ UNCHANGED <<opsVars, svcVars, uiVars>>

\* The state after exchangeCodeForToken: a fresh session.
FreshSession(withRefreshToken) ==
    /\ accessToken = 1
    /\ localStorage = [spotify_access_token |-> 1,
                       spotify_refresh_token |-> IF withRefreshToken THEN 1 ELSE NoToken,
                       spotify_token_expires_at |-> ExpiresIn,
                       spotify_code_verifier |-> FALSE]
    /\ issued = 1
    /\ now = 0

InitReq ==
    /\ \E withRefreshToken \in BOOLEAN : FreshSession(withRefreshToken)
    /\ \E n \in 0..MaxUserPlaylists :
         server = [userPlaylists |-> [i \in 1..n |-> i],
                   lists |-> [p \in 1..2 |-> <<>>],
                   nowPlaying |-> NoUri, paused |-> TRUE]
    /\ sent = <<>>
    /\ call = [fn |-> "none", ok |-> FALSE, value |-> EmptyObject, err |-> NoError,
               before |-> localStorage]
    /\ gp = GpIdle
    /\ OpsAtRest

NextReq ==
    \/ GetUserPlaylistsStart
    \/ GetUserPlaylistsPage
    \/ MakeRequest
    \/ Tick

SpecReq == InitReq /\ [][NextReq]_vars

TypeReq == call.fn \in {"none", "makeRequest", "getUserPlaylists"}

\* ------------------------------------------------------------------------
\* Claims about the request layer (SpecReq)
\* ------------------------------------------------------------------------
IsApiExchange(e) == e.to = "api"
IsRefreshExchange(e) == e.to = "accounts"
ApiExchanges == SelectSeq(sent, IsApiExchange)

FirstApiIndex == CHOOSE i \in DOMAIN sent : sent[i].to = "api" /\ \A j \in 1..(i - 1) : sent[j].to # "api"

\* the refresh requests sent after the first API request of the call
RefreshesAfter401 ==
    SelectSeq(SubSeq(sent, FirstApiIndex + 1, Len(sent)), IsRefreshExchange)

SessionKept(token) ==
    /\ accessToken = token
    /\ localStorage.spotify_access_token = token
    /\ localStorage.spotify_refresh_token # NoToken
    /\ localStorage.spotify_token_expires_at # NoTime

\* C3: a makeRequest call sends the API request at most twice; when the first
\* answer is 401 it asks once for a new access token and, if it gets one,
\* sends the same request exactly once more, with the new token; when that
\* retry is answered ok with a parsable body, the parsed body is returned and
\* the session (tokens in memory and in localStorage) is kept.
C3_RetryOnceOn401 ==
    call.fn = "makeRequest" =>
        /\ Len(ApiExchanges) <= 2
        /\ (Len(ApiExchanges) = 2 => ApiExchanges[1].status = 401)
        /\ (Len(ApiExchanges) >= 1 /\ ApiExchanges[1].status = 401 =>
              /\ Len(RefreshesAfter401) <= 1
              /\ (Len(RefreshesAfter401) = 0 => ApiExchanges[1].token # NoToken
                                               /\ Len(ApiExchanges) = 1)
              /\ (Len(RefreshesAfter401) = 1 /\ RefreshesAfter401[1].status # 200 =>
                    Len(ApiExchanges) = 1)
              /\ (Len(RefreshesAfter401) = 1 /\ RefreshesAfter401[1].status = 200 =>
                    /\ Len(ApiExchanges) = 2
                    /\ ApiExchanges[2].req = ApiExchanges[1].req
                    /\ ApiExchanges[2].path = ApiExchanges[1].path
                    /\ ApiExchanges[2].token = RefreshesAfter401[1].text.id
                    /\ ApiExchanges[2].token # ApiExchanges[1].token
                    /\ (IsOk(ApiExchanges[2].status) /\ ParseBody(ApiExchanges[2].text).ok =>
                          /\ call.ok
                          /\ call.value = ParseBody(ApiExchanges[2].text).value
                          /\ SessionKept(ApiExchanges[2].token))))

C3_Witness ==
    /\ call.fn = "makeRequest"
    /\ Len(ApiExchanges) = 2
    /\ ApiExchanges[1].status = 401
    /\ IsOk(ApiExchanges[2].status)
    /\ call.ok
    /\ call.value.kind = "playlist"

\* C4: getUserPlaylists returns all of the user's playlists, the items of every
\* page in page order, whenever the servers answer each of its requests
\* (no 401, no 5xx, no unparsable body, session present).
C4_AllPlaylistsReturned ==
    (call.fn = "getUserPlaylists" /\ gp.state \in {"returned", "threw"} /\ gp.faults = 0) =>
        /\ gp.state = "returned"
        /\ gp.allPlaylists = server.userPlaylists

\* ------------------------------------------------------------------------
\* Playback and track operations (src/lib/utils.ts)
\* ------------------------------------------------------------------------
MaxLen == 3
MaxHandled == 5
PlaylistIds == 1..2

\* The answers the API gives to the requests of the handlers: served or 500.
\* (The 401 answers and the unparsable bodies are explored in SpecReq; to a
\* handler an unparsable body is one more failed request.)
OpsScenarios == {sc \in Scenarios : sc.pre = "fail" /\ sc.r1 \in {"serve", "500"}}

DefaultScenario == [pre |-> "fail", r1 |-> "serve", rf |-> "fail", r2 |-> "500"]

\* the request succeeds whenever it is sent
Succeeds(sc) == sc.r1 = "serve" \/ (sc.r1 = "401" /\ sc.rf # "fail" /\ sc.r2 = "serve")

\* isTrackPlayable(track).  The attributes of a track (is_playable,
\* restrictions, uri) are fixed per id, so the cache keyed by id returns what
\* the attributes give.
isTrackPlayable(track) ==
    IF track = NoTrack THEN FALSE ELSE track \notin unplayable

\* tracks[i] for a 0-based i; NoTrack stands for undefined
At(tracks, i) == IF i >= 0 /\ i < Len(tracks) THEN tracks[i + 1] ELSE NoTrack

\* tracks.findIndex(t => t.id === track.id)
findIndex(tracks, track) ==
    IF \E i \in DOMAIN tracks : tracks[i] = track
    THEN (CHOOSE i \in DOMAIN tracks :
            tracks[i] = track /\ \A j \in 1..(i - 1) : tracks[j] # track) - 1
    ELSE -1

\* a removal that deletes the first matching entry only
WithoutTrack_First(tracks, track) ==
    LET i == findIndex(tracks, track) IN
    IF i < 0 THEN tracks
    ELSE SubSeq(tracks, 1, i) \o SubSeq(tracks, i + 2, Len(tracks))

\* tracks.filter(t => t.id !== track.id)
WithoutTrack(tracks, track) == LET Other(t) == t # track IN SelectSeq(tracks, Other)

\* one step of the index in findNextPlayableTrack
StepIndex(tracks, currentIndex, direction) ==
    IF direction = 1
    THEN (IF currentIndex < Len(tracks) - 1 THEN currentIndex + 1 ELSE 0)
    ELSE (IF currentIndex > 0 THEN currentIndex - 1 ELSE Len(tracks) - 1)

RECURSIVE FindLoop(_, _, _, _, _)
FindLoop(tracks, startIndex, direction, currentIndex, attempts) ==
    IF attempts >= Len(tracks) THEN -1
    ELSE LET nextIndex == StepIndex(tracks, currentIndex, direction)
         IN IF isTrackPlayable(At(tracks, nextIndex)) THEN nextIndex
            ELSE IF nextIndex = startIndex THEN -1
            ELSE FindLoop(tracks, startIndex, direction, nextIndex, attempts + 1)

findNextPlayableTrack(tracks, startIndex, direction) ==
    IF Len(tracks) = 0 THEN -1
    ELSE FindLoop(tracks, startIndex, direction, startIndex, 0)

\* ------------------------------------------------------------------------
\* The stores a handler writes, threaded through its awaits
\* ------------------------------------------------------------------------
Stores ==
    [currentTrack |-> currentTrack, currentTrackIndex |-> currentTrackIndex,
     isPlaying |-> isPlaying, playbackPosition |-> playbackPosition]

\* Player.svelte, the reactive statement on $currentTrack and $currentTracks:
\* the index follows the current track whenever the list holds it
SyncIndex(st, tracks) ==
    LET trackIndex == findIndex(tracks, st.currentTrack) IN
    IF st.currentTrack # NoTrack /\ Len(tracks) > 0 /\ trackIndex >= 0
    THEN [st EXCEPT !.currentTrackIndex = trackIndex]
    ELSE st

\* the stores once the handler has returned and the components have updated
CommitStores(st, tracks) ==
    LET synced == SyncIndex(st, tracks) IN
    /\ currentTrack' = synced.currentTrack
    /\ currentTrackIndex' = synced.currentTrackIndex
    /\ isPlaying' = synced.isPlaying
    /\ playbackPosition' = synced.playbackPosition

\* ------------------------------------------------------------------------
\* SpotifyAPI methods used by the operations
\* ------------------------------------------------------------------------
\* spotifyAPI.playTrack(trackUri) / resumePlayback(): PUT /me/player/play.
\* The errors of makeRequest carry no status, so the 404 branch never runs.
apiPlayTrack(w, t, trackUri, sc) ==
    makeRequest(w, t, Request("PUT", PlayRoute, 0, NoPlaylist, trackUri), sc)

pausePlayback(w, t, sc) ==
    makeRequest(w, t, Request("PUT", PauseRoute, 0, NoPlaylist, NoUri), sc)

getPlaybackState(w, t, sc) ==
    makeRequest(w, t, Request("GET", PlayerRoute, 0, NoPlaylist, NoUri), sc)

getPlaylist(w, t, playlistId, sc) ==
    makeRequest(w, t, Request("GET", PlaylistRoute, 0, playlistId, NoUri), sc)

\* getPlaylistTracks: the playlists of the model fit on one page (limit=100),
\* so the loop runs once and response.next is null.
getPlaylistTracks(w, t, playlistId, sc) ==
    LET Checked(response) ==
            IF ~response.ok THEN response
            ELSE IF ~response.value.hasItems
                 THEN Thrown(response.w, "Invalid response format from Spotify API", 0)
            ELSE response
    IN Checked(makeRequest(w, t, Request("GET", TracksRoute, 0, playlistId, NoUri), sc))

apiAddTrackToPlaylist(w, t, playlistId, trackUri, sc) ==
    makeRequest(w, t, Request("POST", TracksRoute, 0, playlistId, trackUri), sc)

apiRemoveTrackFromPlaylist(w, t, playlistId, trackUri, sc) ==
    makeRequest(w, t, Request("DELETE", TracksRoute, 0, playlistId, trackUri), sc)

\* webPlaybackService.play(uri): the play request through the API and, when
\* it throws, once more followed by player.resume(); the original error is
\* thrown when both fail.
webPlaybackPlay(w, t, hasDevice, trackUri, s1, s2, resumeOk) ==
    LET Second(second, first) ==
            IF second.ok /\ resumeOk THEN second
            ELSE Thrown(second.w, first.err.name, first.err.status)
        First(first) ==
            IF first.ok THEN first
            ELSE Second(apiPlayTrack(first.w, t, trackUri, s2), first)
    IN IF ~hasDevice THEN Thrown(w, "Player not ready", 0)
       ELSE First(apiPlayTrack(w, t, trackUri, s1))

\* ------------------------------------------------------------------------
\* tokenManager.checkAndRefreshToken and the handleAPIError of the components
\* ------------------------------------------------------------------------
checkAndRefreshToken(w, t, rr) ==
    LET Valid(e) == [w |-> e.w, valid |-> e.token # NoToken]
    IN Valid(ensureValidToken(w, t, rr))

Null(w) == [w |-> w, ok |-> FALSE, value |-> EmptyObject, err |-> NoError]

\* the calls the components hand to handleAPIError
ApiCall(name, playlistId) == [name |-> name, playlistId |-> playlistId]

\* apiCall(): () => services.spotifyAPI.getPlaylistTracks(id) / getPlaylist(id)
Invoke(apiCall, w, t, sc) ==
    IF apiCall.name = "getPlaylistTracks"
    THEN getPlaylistTracks(w, t, apiCall.playlistId, sc)
    ELSE getPlaylist(w, t, apiCall.playlistId, sc)

\* handleAPIError(apiCall); calls counts the times apiCall was invoked
handleAPIError(w, t, apiCall, rr1, sc1, rr2, sc2) ==
    LET Retried(retry) ==
            (IF retry.ok THEN retry ELSE Null(retry.w)) @@ [calls |-> 2]
        Again(again) == Retried(Invoke(apiCall, again.w, t, sc2))
        Called(r) ==
            IF r.ok THEN r @@ [calls |-> 1]
            ELSE IF MessageIncludes401(r.err)
                 THEN Again(checkAndRefreshToken(r.w, t, rr2))
            ELSE Null(r.w) @@ [calls |-> 1]
        Checked(tokenValid) ==
            IF ~tokenValid.valid THEN Null(tokenValid.w) @@ [calls |-> 0]
            ELSE Called(Invoke(apiCall, tokenValid.w, t, sc1))
    IN Checked(checkAndRefreshToken(w, t, rr1))

\* ------------------------------------------------------------------------
\* playTrack
\* ------------------------------------------------------------------------
\* what the servers and the SDK answer during one playTrack call
PlayEnvs ==
    {env \in [s1 : OpsScenarios, s2 : OpsScenarios, resumeOk : BOOLEAN,
              sdkState : BOOLEAN, s3 : OpsScenarios] :
        /\ (Succeeds(env.s1) =>
               env.s2 = DefaultScenario /\ env.resumeOk /\ env.sdkState
               /\ env.s3 = DefaultScenario)
        /\ (~Succeeds(env.s2) => env.resumeOk)
        /\ (env.s3 # DefaultScenario => env.s2 = DefaultScenario /\ env.sdkState)}

\* with a device the SDK is asked for the state, without one the API
PlayEnvsFor(hasDevice) ==
    {env \in PlayEnvs :
        IF hasDevice THEN env.s3 = DefaultScenario
        ELSE env.s2 = DefaultScenario /\ env.resumeOk /\ env.sdkState}

\* a revert that forgets the index
Reverted_KeepIndex(st) ==
    [st EXCEPT !.currentTrack = NoTrack, !.isPlaying = FALSE, !.playbackPosition = 0]

\* if (!playSuccessful && lastError) { ... }
Reverted(st) ==
    [st EXCEPT !.currentTrack = NoTrack, !.currentTrackIndex = -1,
               !.isPlaying = FALSE, !.playbackPosition = 0]

playTrack(st, w, t, hasDevice, track, tracks, env) ==
    IF ~isTrackPlayable(track)
    THEN [st |-> st, w |-> w, result |-> FALSE, failed |-> FALSE, confirmed |-> FALSE]
    ELSE
      LET trackIndex == findIndex(tracks, track)
          optimistic == [st EXCEPT
              !.currentTrack = IF ~hasDevice THEN track ELSE @,
              !.currentTrackIndex = trackIndex,
              !.playbackPosition = 0,
              !.isPlaying = TRUE]
          \* the state check of the catch block: the SDK with a device, the API without
          Checked(request, state) ==
              LET stopped == [optimistic EXCEPT !.isPlaying = FALSE]
                  w2 == IF hasDevice THEN request.w ELSE state.w
                  confirmed ==
                      IF hasDevice
                      THEN /\ env.sdkState
                           /\ ~request.w.server.paused
                           /\ request.w.server.nowPlaying = uri(track)
                      ELSE /\ state.ok
                           /\ state.value.playing
                           /\ state.value.track = uri(track)
              IN IF confirmed
                 THEN [st |-> [stopped EXCEPT !.isPlaying = TRUE], w |-> w2,
                       result |-> TRUE, failed |-> TRUE, confirmed |-> TRUE]
                 ELSE [st |-> Reverted(stopped), w |-> w2,
                       result |-> FALSE, failed |-> TRUE, confirmed |-> FALSE]
          \* await webPlaybackService.play(uri) / spotifyAPI.playTrack(uri)
          Requested(request) ==
              IF request.ok
              THEN [st |-> IF hasDevice THEN optimistic
                           ELSE [optimistic EXCEPT !.currentTrack = track],
                    w |-> request.w, result |-> TRUE, failed |-> FALSE, confirmed |-> FALSE]
              ELSE Checked(request, getPlaybackState(request.w, t, env.s3))
      IN Requested(IF hasDevice
                   THEN webPlaybackPlay(w, t, hasDevice, uri(track), env.s1, env.s2,
                                        env.resumeOk)
                   ELSE apiPlayTrack(w, t, uri(track), env.s1))

DefaultEnv == [s1 |-> DefaultScenario, s2 |-> DefaultScenario, resumeOk |-> TRUE,
               sdkState |-> TRUE, s3 |-> DefaultScenario]

\* a session of at most MaxHandled user actions and player events
Handled == handled < MaxHandled /\ handled' = handled + 1

Handler(op, track, tracks) ==
    [NoHandler EXCEPT !.op = op, !.track = track, !.returned = tracks]

\* a catch block that returns the list without the track
Failed_Updated(op, track, tracks) ==
    [NoHandler EXCEPT !.op = op, !.track = track, !.returned = WithoutTrack(tracks, track),
                      !.ok = FALSE, !.apiFailed = TRUE]

\* the catch block of removeTrack, moveTrack and copyTrack: return tracks
Failed(op, track, tracks) ==
    [Handler(op, track, tracks) EXCEPT !.ok = FALSE, !.apiFailed = TRUE]

\* the session and the servers after a handler; the exchanges are not logged
CommitWorld(w) ==
    /\ Commit(w)
    /\ UNCHANGED <<now, sent, call, gp>>
    /\ UNCHANGED svcVars

\* ------------------------------------------------------------------------
\* Removal of the current track: which track is played next
\* ------------------------------------------------------------------------
\* a choice of the successor that skips the track at the position of the removed one
Successor_Skip(updatedTracks, currentIndex) ==
    LET startSearchIndex == Min(currentIndex, Len(updatedTracks) - 1)
        nextPlayableIndex == findNextPlayableTrack(updatedTracks, startSearchIndex, 1)
    IN IF nextPlayableIndex # -1 THEN At(updatedTracks, nextPlayableIndex) ELSE NoTrack

\* the track to auto-play once the current track left the list; NoTrack if none
Successor(updatedTracks, currentIndex) ==
    LET startSearchIndex == Min(currentIndex, Len(updatedTracks) - 1) IN
    IF startSearchIndex >= 0 /\ isTrackPlayable(At(updatedTracks, startSearchIndex))
    THEN At(updatedTracks, startSearchIndex)
    ELSE LET nextPlayableIndex == findNextPlayableTrack(updatedTracks, startSearchIndex, 1)
         IN IF nextPlayableIndex # -1 THEN At(updatedTracks, nextPlayableIndex) ELSE NoTrack

AutoPlays(isCurrentlyPlaying, updatedTracks, currentIndex) ==
    /\ isCurrentlyPlaying
    /\ Len(updatedTracks) > 0
    /\ Successor(updatedTracks, currentIndex) # NoTrack

\* if (isCurrentlyPlaying && updatedTracks.length > 0) { ... }
AfterRemoval(st, w, t, hasDevice, isCurrentlyPlaying, updatedTracks, currentIndex, env) ==
    LET Played(p, next) ==
            [st |-> p.st, w |-> p.w, played |-> next, result |-> p.result,
             failed |-> p.failed, confirmed |-> p.confirmed]
        Chosen(next) ==
            IF next # NoTrack
            THEN Played(playTrack(st, w, t, hasDevice, next, updatedTracks, env), next)
            ELSE [st |-> [st EXCEPT !.currentTrack = NoTrack, !.currentTrackIndex = -1,
                                    !.isPlaying = FALSE],
                  w |-> w, played |-> NoTrack, result |-> FALSE, failed |-> FALSE,
                  confirmed |-> FALSE]
    IN IF isCurrentlyPlaying /\ Len(updatedTracks) > 0
       THEN Chosen(Successor(updatedTracks, currentIndex))
       ELSE [st |-> st, w |-> w, played |-> NoTrack, result |-> FALSE, failed |-> FALSE,
             confirmed |-> FALSE]

\* the tracks a handler of TrackList (a row) or of Player (the current track)
\* can be called with
RowTracks == IF selectedPlaylist # NoPlaylistObject THEN Range(currentTracks) ELSE {}
PlayerTrack == IF currentTrack # NoTrack /\ currentTracks # <<>> THEN {currentTrack} ELSE {}

\* Player.svelte: isUserOwner, canRemove; the user owns the playlists of the model
canRemove == selectedPlaylist # NoPlaylistObject

\* buttons that are enabled for any target
TargetDiffers_Any == targetPlaylist # NoPlaylistObject

\* the move and copy buttons are enabled for a target other than the source
\* ($targetPlaylist && $targetPlaylist.id !== $selectedPlaylist?.id)
TargetDiffers ==
    targetPlaylist # NoPlaylistObject /\ targetPlaylist.id # selectedPlaylist.id

\* the tracks with an enabled remove, move and copy button
RemovableTracks == RowTracks \cup (IF canRemove THEN PlayerTrack ELSE {})
MovableTracks ==
    IF TargetDiffers
    THEN {track \in RowTracks : isTrackPlayable(track)}
         \cup (IF canRemove THEN PlayerTrack ELSE {})
    ELSE {}
CopyableTracks == IF TargetDiffers THEN PlayerTrack ELSE {}

\* ------------------------------------------------------------------------
\* Settings: choice of the source and of the target playlist; TrackList
\* reloads the tracks whenever a source playlist is set (loadTracks).
\* ------------------------------------------------------------------------
SelectPlaylistStores ==
    /\ ~mv.active
    /\ Handled
    /\ \E p \in PlaylistIds \cup {NoPlaylist}, sc \in OpsScenarios :
        /\ (p = NoPlaylist => sc = DefaultScenario)
        /\ selectedPlaylist' = IF p = NoPlaylist THEN NoPlaylistObject ELSE playlists[p]
        /\ IF p = NoPlaylist
           THEN /\ UNCHANGED <<currentTracks, currentTrack, currentTrackIndex, isPlaying,
                               playbackPosition>>
                /\ CommitWorld(World)
           ELSE \E tracksData \in {handleAPIError(World, now, ApiCall("getPlaylistTracks", p),
                                                   "fail", sc, "fail", DefaultScenario)} :
                LET loaded == IF tracksData.ok THEN tracksData.value.items ELSE <<>>
                IN /\ tracksData.w.issued <= MaxIssued
                   /\ currentTracks' = loaded
                   /\ CommitStores(Stores, loaded)
                   /\ CommitWorld(tracksData.w)
        /\ last' = Handler("selectPlaylist", NoTrack, <<>>)
        /\ toasts' = <<>>
    /\ UNCHANGED <<playlists, targetPlaylist, deviceId, unplayable, mv>>

\* the choice of a source playlist while the Player component is idle
SelectPlaylist ==
    /\ SelectPlaylistStores
    /\ UNCHANGED uiVars

SelectTarget ==
    /\ ~mv.active
    /\ Handled
    /\ \E p \in PlaylistIds \cup {NoPlaylist} :
        targetPlaylist' = IF p = NoPlaylist THEN NoPlaylistObject ELSE playlists[p]
    /\ last' = Handler("selectTarget", NoTrack, <<>>)
    /\ toasts' = <<>>
    /\ UNCHANGED <<playlists, selectedPlaylist, currentTracks, currentTrack,
                   currentTrackIndex, isPlaying, playbackPosition, deviceId, unplayable, mv>>
    /\ UNCHANGED <<reqVars, svcVars>>
    /\ UNCHANGED uiVars

\* ------------------------------------------------------------------------
\* The Web Playback SDK
\* ------------------------------------------------------------------------
\* state.position / 1000 of the events: the playback has advanced
SdkPositions == {1}

\* state.duration / 1000, item.duration_ms / 1000: every track lasts as long
TrackLength == 3

\* the 'player_state_changed' listener, called with the state of the playback
PlayerStateChanged ==
    /\ ~mv.active
    /\ Handled
    /\ deviceId
    /\ server.nowPlaying # NoUri
    /\ \E position \in SdkPositions :
        CommitStores([Stores EXCEPT
            !.currentTrack = IF currentTrack = NoTrack \/ uri(currentTrack) # server.nowPlaying
                             THEN TrackOfUri(server.nowPlaying) ELSE currentTrack,
            !.isPlaying = ~server.paused,
            !.playbackPosition = position], currentTracks)
    /\ trackDuration' = TrackLength
    /\ last' = Handler("player_state_changed", NoTrack, <<>>)
    /\ toasts' = <<>>
    /\ UNCHANGED <<playlists, selectedPlaylist, targetPlaylist, currentTracks,
                   deviceId, unplayable, mv>>
    /\ UNCHANGED <<reqVars, svcVars>>
    /\ UNCHANGED <<wp, repeatMode, repeatStorage, isShuffleOn, originalTrackOrder,
                   cmp, polls, ui>>

\* ------------------------------------------------------------------------
\* togglePlayPause(track, tracks, stores, services): a click on a row
\* ------------------------------------------------------------------------
TogglePlayPause ==
    /\ ~mv.active
    /\ Handled
    /\ \E track \in RowTracks, env \in PlayEnvsFor(deviceId) :
        LET isCurrentTrack == currentTrack = track IN
        IF ~isTrackPlayable(track) THEN
            /\ env = DefaultEnv
            /\ last' = Handler("togglePlayPause", track, currentTracks)
            /\ UNCHANGED <<currentTrack, currentTrackIndex, isPlaying, playbackPosition>>
            /\ CommitWorld(World)
        ELSE IF isCurrentTrack THEN
            \* pause when playing, resume when paused; an error is only logged
            /\ env.s2 = DefaultScenario /\ env.s3 = DefaultScenario /\ env.sdkState
            /\ \E r \in {IF deviceId
                        THEN (IF env.resumeOk /\ env.s1 = DefaultScenario
                              THEN Returned([World EXCEPT !.server.paused = isPlaying],
                                            EmptyObject)
                              ELSE Thrown(World, "Player not ready", 0))
                        ELSE IF isPlaying THEN pausePlayback(World, now, env.s1)
                        ELSE apiPlayTrack(World, now, NoUri, env.s1)} :
                  /\ (deviceId => env.s1 = DefaultScenario)
                  /\ (~deviceId => env.resumeOk)
                  /\ r.w.issued <= MaxIssued
                  /\ isPlaying' = IF r.ok THEN ~isPlaying ELSE isPlaying
                  /\ CommitWorld(r.w)
            /\ last' = Handler("togglePlayPause", track, currentTracks)
            /\ UNCHANGED <<currentTrack, currentTrackIndex, playbackPosition>>
        ELSE
            \E p \in {playTrack(Stores, World, now, deviceId, track, currentTracks, env)} :
               /\ p.w.issued <= MaxIssued
               /\ CommitStores(p.st, currentTracks)
               /\ CommitWorld(p.w)
               /\ last' = [Handler("togglePlayPause", track, currentTracks) EXCEPT
                              !.played = track, !.playResult = p.result,
                              !.playFailed = p.failed, !.confirmed = p.confirmed]
    /\ toasts' = <<>>
    /\ UNCHANGED <<playlists, selectedPlaylist, targetPlaylist, currentTracks, deviceId,
                   unplayable, mv>>
    /\ UNCHANGED uiVars

\* ------------------------------------------------------------------------
\* playPreviousTrack / playNextTrack
\* ------------------------------------------------------------------------
\* Player.isPlayerReady: set on mount once the SDK has a device id
isPlayerReady == deviceId

NavigateStores(op, direction) ==
    /\ ~mv.active
    /\ Handled
    /\ \E env \in PlayEnvsFor(deviceId) :
        /\ env.sdkState /\ env.s3 = DefaultScenario
        /\ IF Len(currentTracks) = 0 \/ currentTrackIndex < 0 THEN
              \* 'No playlist context'
              /\ isPlayerReady /\ env = DefaultEnv
              /\ last' = [Handler(op, NoTrack, currentTracks) EXCEPT !.ok = FALSE]
              /\ UNCHANGED <<currentTrack, currentTrackIndex, isPlaying, playbackPosition>>
              /\ CommitWorld(World)
           ELSE
             \E index \in {findNextPlayableTrack(currentTracks, currentTrackIndex,
                                                  direction)} :
             IF index = -1 THEN
                /\ isPlayerReady /\ env = DefaultEnv
                /\ last' = [Handler(op, NoTrack, currentTracks) EXCEPT !.found = -1]
                /\ UNCHANGED <<currentTrack, currentTrackIndex, isPlaying, playbackPosition>>
                /\ CommitWorld(World)
             ELSE
                \E track \in {At(currentTracks, index)} :
                \E r \in {IF isPlayerReady
                          THEN webPlaybackPlay(World, now, deviceId, uri(track),
                                               env.s1, env.s2, env.resumeOk)
                          ELSE apiPlayTrack(World, now, uri(track), env.s1)} :
                   /\ (~isPlayerReady => env.s2 = DefaultScenario /\ env.resumeOk)
                   /\ r.w.issued <= MaxIssued
                   /\ CommitStores([Stores EXCEPT
                          !.playbackPosition = 0,
                          !.currentTrackIndex = index,
                          !.currentTrack = IF ~isPlayerReady /\ r.ok THEN track ELSE @],
                          currentTracks)
                   /\ CommitWorld(r.w)
                   /\ last' = [Handler(op, track, currentTracks) EXCEPT
                                  !.found = index, !.played = track, !.playResult = r.ok,
                                  !.playFailed = ~r.ok]
    /\ toasts' = <<>>
    /\ UNCHANGED <<playlists, selectedPlaylist, targetPlaylist, currentTracks, deviceId,
                   unplayable, mv>>

\* playPreviousTrack / playNextTrack called while the Player component is idle
Navigate(op, direction) ==
    /\ NavigateStores(op, direction)
    /\ UNCHANGED uiVars

PlayNextTrack == Navigate("playNextTrack", 1)

PlayPreviousTrack == Navigate("playPreviousTrack", -1)

\* ------------------------------------------------------------------------
\* removeTrack
\* ------------------------------------------------------------------------
\* removeTrackFromPlaylist(track, playlistId, services)
removeTrackFromPlaylist(w, t, track, playlistId, sc) ==
    apiRemoveTrackFromPlaylist(w, t, playlistId, getOperationalUri(track), sc)

RemoveTrack ==
    /\ ~mv.active
    /\ Handled
    /\ \E track \in RemovableTracks, sc \in OpsScenarios,
          env \in PlayEnvsFor(deviceId) :
        LET tracks == currentTracks IN
        IF selectedPlaylist = NoPlaylistObject THEN
            \* 'No selected playlist'
            /\ sc = DefaultScenario /\ env = DefaultEnv
            /\ last' = [Handler("removeTrack", track, tracks) EXCEPT !.ok = FALSE]
            /\ toasts' = <<>>
            /\ UNCHANGED <<currentTracks, currentTrack, currentTrackIndex, isPlaying,
                           playbackPosition>>
            /\ CommitWorld(World)
        ELSE
          \E removed \in {removeTrackFromPlaylist(World, now, track, selectedPlaylist.id, sc)},
             updatedTracks \in {WithoutTrack(tracks, track)} :
          LET isCurrentlyPlaying == currentTrack = track
              currentIndex == findIndex(tracks, track)
          IN IF ~removed.ok THEN
                /\ env = DefaultEnv
                /\ removed.w.issued <= MaxIssued
                /\ toasts' = <<"error">>
                /\ last' = Failed("removeTrack", track, tracks)
                /\ UNCHANGED <<currentTracks, currentTrack, currentTrackIndex, isPlaying,
                               playbackPosition>>
                /\ CommitWorld(removed.w)
             ELSE
               \E a \in {AfterRemoval(Stores, removed.w, now, deviceId, isCurrentlyPlaying,
                                      updatedTracks, currentIndex, env)} :
                  /\ (~AutoPlays(isCurrentlyPlaying, updatedTracks, currentIndex)
                        => env = DefaultEnv)
                  /\ a.w.issued <= MaxIssued
                  /\ currentTracks' = updatedTracks
                  /\ toasts' = <<"success">>
                  /\ CommitStores(a.st, updatedTracks)
                  /\ CommitWorld(a.w)
                  /\ last' = [Handler("removeTrack", track, tracks) EXCEPT
                                 !.returned = updatedTracks, !.played = a.played,
                                 !.playResult = a.result, !.playFailed = a.failed,
                                 !.confirmed = a.confirmed]
    /\ UNCHANGED <<playlists, selectedPlaylist, targetPlaylist, deviceId, unplayable, mv>>
    /\ UNCHANGED uiVars

\* ------------------------------------------------------------------------
\* addTrackToPlaylist, moveTrack, copyTrack
\* ------------------------------------------------------------------------
\* targetTracks && Array.isArray(targetTracks) && targetTracks.some(t => t.id === track.id)
TrackAlreadyExists(targetTracks, track) ==
    targetTracks.ok /\ track \in Range(targetTracks.value.items)

\* an add step that swallows the error of the add request
addTrackToPlaylist_Swallowed(w, t, track, playlistId, scTracks, scAdd) ==
    LET Added(add) == [w |-> add.w, ok |-> TRUE, added |-> add.ok, asked |-> TRUE]
        Fetched(targetTracks) ==
            IF ~TrackAlreadyExists(targetTracks, track)
            THEN Added(apiAddTrackToPlaylist(targetTracks.w, t, playlistId,
                                             getOperationalUri(track), scAdd))
            ELSE [w |-> targetTracks.w, ok |-> TRUE, added |-> FALSE, asked |-> FALSE]
    IN Fetched(handleAPIError(w, t, ApiCall("getPlaylistTracks", playlistId),
                              "fail", scTracks, "fail", DefaultScenario))

\* addTrackToPlaylist: [ok |-> FALSE] when the add request throws, otherwise
\* added tells whether the track was added
addTrackToPlaylist(w, t, track, playlistId, scTracks, scAdd) ==
    LET Added(add) == [w |-> add.w, ok |-> add.ok, added |-> add.ok, asked |-> TRUE]
        Fetched(targetTracks) ==
            IF ~TrackAlreadyExists(targetTracks, track)
            THEN Added(apiAddTrackToPlaylist(targetTracks.w, t, playlistId,
                                             getOperationalUri(track), scAdd))
            ELSE [w |-> targetTracks.w, ok |-> TRUE, added |-> FALSE, asked |-> FALSE]
    IN Fetched(handleAPIError(w, t, ApiCall("getPlaylistTracks", playlistId),
                              "fail", scTracks, "fail", DefaultScenario))

PlaylistObject(value) == [id |-> value.id, total |-> value.total]

\* the refresh of the targetPlaylist store after a move or a copy
RefreshTarget(w, t, playlistId, sc) ==
    handleAPIError(w, t, ApiCall("getPlaylist", playlistId), "fail", sc,
                   "fail", DefaultScenario)

\* first half of moveTrack: up to the return of addTrackToPlaylist
MoveTrackAdd ==
    /\ ~mv.active
    /\ Handled
    /\ \E track \in MovableTracks, scTracks \in OpsScenarios,
          scAdd \in OpsScenarios :
        LET tracks == currentTracks IN
        IF targetPlaylist = NoPlaylistObject \/ selectedPlaylist = NoPlaylistObject THEN
            \* 'No target or selected playlist'
            /\ scTracks = DefaultScenario /\ scAdd = DefaultScenario
            /\ last' = [Handler("moveTrack", track, tracks) EXCEPT !.ok = FALSE]
            /\ toasts' = <<>>
            /\ mv' = mv
            /\ CommitWorld(World)
        ELSE
          \E added \in {addTrackToPlaylist(World, now, track, targetPlaylist.id,
                                           scTracks, scAdd)} :
             /\ Len(server.lists[targetPlaylist.id]) < MaxLen
             /\ (~added.asked => scAdd = DefaultScenario)
             /\ added.w.issued <= MaxIssued
             /\ CommitWorld(added.w)
             /\ IF ~added.ok THEN
                   /\ toasts' = <<"error">>
                   /\ mv' = mv
                   /\ last' = Failed("moveTrack", track, tracks)
                ELSE
                   /\ toasts' = <<>>
                   /\ mv' = [active |-> TRUE, track |-> track, tracks |-> tracks,
                             source |-> selectedPlaylist.id, target |-> targetPlaylist.id,
                             isCurrentlyPlaying |-> (currentTrack = track),
                             currentIndex |-> findIndex(tracks, track),
                             trackWasAdded |-> added.added]
                   /\ last' = Handler("moveTrack:add", track, tracks)
    /\ UNCHANGED <<playlists, selectedPlaylist, targetPlaylist, currentTracks, currentTrack,
                   currentTrackIndex, isPlaying, playbackPosition, deviceId, unplayable>>
    /\ UNCHANGED uiVars

\* second half of moveTrack: from removeTrackFromPlaylist to the return
MoveTrackRemove ==
    /\ mv.active
    /\ UNCHANGED handled
    /\ \E scRemove \in OpsScenarios, scPlaylist \in OpsScenarios,
          env \in PlayEnvsFor(deviceId) :
        \E removed \in {removeTrackFromPlaylist(World, now, mv.track, mv.source, scRemove)},
           updatedTracks \in {WithoutTrack(mv.tracks, mv.track)} :
           IF ~removed.ok THEN
              /\ scPlaylist = DefaultScenario /\ env = DefaultEnv
              /\ removed.w.issued <= MaxIssued
              /\ toasts' = <<"error">>
              /\ last' = Failed("moveTrack", mv.track, mv.tracks)
              /\ UNCHANGED <<currentTracks, targetPlaylist, currentTrack, currentTrackIndex,
                             isPlaying, playbackPosition>>
              /\ CommitWorld(removed.w)
           ELSE
             \E updatedTargetPlaylist \in
                    {RefreshTarget(removed.w, now, mv.target, scPlaylist)} :
             \E a \in {AfterRemoval(Stores, updatedTargetPlaylist.w, now, deviceId,
                                    mv.isCurrentlyPlaying, updatedTracks, mv.currentIndex,
                                    env)} :
                /\ (~AutoPlays(mv.isCurrentlyPlaying, updatedTracks, mv.currentIndex)
                      => env = DefaultEnv)
                /\ a.w.issued <= MaxIssued
                /\ currentTracks' = updatedTracks
                /\ targetPlaylist' = IF updatedTargetPlaylist.ok
                                     THEN PlaylistObject(updatedTargetPlaylist.value)
                                     ELSE targetPlaylist
                /\ toasts' = <<IF mv.trackWasAdded THEN "success" ELSE "info">>
                /\ CommitStores(a.st, updatedTracks)
                /\ CommitWorld(a.w)
                /\ last' = [Handler("moveTrack", mv.track, mv.tracks) EXCEPT
                               !.returned = updatedTracks, !.played = a.played,
                               !.playResult = a.result, !.playFailed = a.failed,
                               !.confirmed = a.confirmed]
    /\ mv' = MvIdle
    /\ UNCHANGED <<playlists, selectedPlaylist, deviceId, unplayable>>
    /\ UNCHANGED uiVars

CopyTrack ==
    /\ ~mv.active
    /\ Handled
    /\ \E track \in CopyableTracks, scTracks \in OpsScenarios, scAdd \in OpsScenarios,
          scPlaylist \in OpsScenarios :
        LET tracks == currentTracks IN
        IF targetPlaylist = NoPlaylistObject THEN
            \* 'No target playlist'
            /\ scTracks = DefaultScenario /\ scAdd = DefaultScenario
            /\ scPlaylist = DefaultScenario
            /\ last' = [Handler("copyTrack", track, tracks) EXCEPT !.ok = FALSE]
            /\ toasts' = <<>>
            /\ UNCHANGED targetPlaylist
            /\ CommitWorld(World)
        ELSE
          \E added \in {addTrackToPlaylist(World, now, track, targetPlaylist.id,
                                           scTracks, scAdd)} :
             /\ Len(server.lists[targetPlaylist.id]) < MaxLen
             /\ (~added.asked => scAdd = DefaultScenario)
             /\ IF ~added.ok THEN
                   /\ scPlaylist = DefaultScenario
                   /\ added.w.issued <= MaxIssued
                   /\ toasts' = <<"error">>
                   /\ last' = Failed("copyTrack", track, tracks)
                   /\ UNCHANGED targetPlaylist
                   /\ CommitWorld(added.w)
                ELSE
                  \E updatedTargetPlaylist \in
                         {RefreshTarget(added.w, now, targetPlaylist.id, scPlaylist)} :
                     /\ updatedTargetPlaylist.w.issued <= MaxIssued
                     /\ targetPlaylist' = IF updatedTargetPlaylist.ok
                                          THEN PlaylistObject(updatedTargetPlaylist.value)
                                          ELSE targetPlaylist
                     /\ toasts' = <<IF added.added THEN "success" ELSE "info">>
                     /\ last' = Handler("copyTrack", track, tracks)
                     /\ CommitWorld(updatedTargetPlaylist.w)
    /\ UNCHANGED <<playlists, selectedPlaylist, currentTracks, currentTrack,
                   currentTrackIndex, isPlaying, playbackPosition, deviceId, unplayable, mv>>
    /\ UNCHANGED uiVars

\* ------------------------------------------------------------------------
\* SpecOps
\* ------------------------------------------------------------------------
StoresIdle ==
    /\ SvcAtRest
    /\ sent = <<>>
    /\ call = [fn |-> "none", ok |-> FALSE, value |-> EmptyObject, err |-> NoError,
               before |-> localStorage]
    /\ gp = GpIdle
    /\ playlists = [p \in PlaylistIds |-> [id |-> p, total |-> Len(server.lists[p])]]
    /\ selectedPlaylist = NoPlaylistObject
    /\ targetPlaylist = NoPlaylistObject
    /\ currentTracks = <<>>
    /\ currentTrack = NoTrack
    /\ currentTrackIndex = -1
    /\ isPlaying = FALSE
    /\ playbackPosition = 0
    /\ toasts = <<>>
    /\ mv = MvIdle
    /\ last = NoHandler
    /\ handled = 0

StoresAtRest ==
    /\ StoresIdle
    /\ UiAtRest

\* SpecOps: the track operations between two playlists.  The source playlist
\* holds an ordinary and a relinked track; the player uses the API fallback.
OpsSource == <<getOperationalUri(1), getOperationalUri(NumTracks)>>
OpsTarget == <<getOperationalUri(1)>>

InitOps ==
    /\ FreshSession(TRUE)
    /\ server = [userPlaylists |-> <<1, 2>>,
                 lists |-> [p \in PlaylistIds |-> IF p = 1 THEN OpsSource ELSE OpsTarget],
                 nowPlaying |-> NoUri, paused |-> TRUE]
    /\ deviceId = FALSE
    /\ unplayable \in SUBSET {1, NumTracks}
    /\ StoresAtRest

NextOps ==
    \/ SelectPlaylist
    \/ SelectTarget
    \/ TogglePlayPause
    \/ RemoveTrack
    \/ MoveTrackAdd
    \/ MoveTrackRemove
    \/ CopyTrack

SpecOps == InitOps /\ [][NextOps]_vars

\* SpecNav: playback and navigation in one playlist of MaxLen tracks, with or
\* without a Web Playback device.
NavSource == [i \in 1..Min(MaxLen, NumTracks) |-> getOperationalUri(i)]

NavOther == <<getOperationalUri(1)>>

UnplayableChoices == {{}, {2}, TrackIds}

InitNav ==
    /\ FreshSession(TRUE)
    /\ server = [userPlaylists |-> <<1, 2>>,
                 lists |-> [p \in PlaylistIds |-> IF p = 1 THEN NavSource ELSE NavOther],
                 nowPlaying |-> NoUri, paused |-> TRUE]
    /\ deviceId \in BOOLEAN
    /\ unplayable \in UnplayableChoices
    /\ StoresAtRest

NextNav ==
    \/ SelectPlaylist
    \/ PlayerStateChanged
    \/ TogglePlayPause
    \/ PlayNextTrack
    \/ PlayPreviousTrack
    \/ RemoveTrack

SpecNav == InitNav /\ [][NextNav]_vars

TypeOps ==
    /\ currentTrackIndex >= -1
    /\ Len(currentTracks) <= MaxLen
    /\ handled \in 0..MaxHandled
    /\ SyncIndex(Stores, currentTracks) = Stores

\* ------------------------------------------------------------------------
\* Claims about the track operations and the playback
\* ------------------------------------------------------------------------
Count(s, x) == Cardinality({i \in DOMAIN s : s[i] = x})

\* the playlist p of the servers srv holds the track
In(srv, p, track) ==
    p \in PlaylistIds /\ getOperationalUri(track) \in Range(srv.lists[p])

\* a handler other than moveTrack returns in this step
Returns(op) == handled' = handled + 1 /\ last'.op = op

\* out is the list in without the entries equal to track, the others in order
IsDeletion(out, in, track) ==
    LET kept == {i \in DOMAIN in : in[i] # track} IN
    /\ Len(out) = Cardinality(kept)
    /\ \A i \in kept : out[Cardinality({j \in kept : j <= i})] = in[i]

\* C1: a move of a track that is in the source and not in the target leaves
\* the track in exactly one of the two playlists when moveTrack returns: in
\* the target and no longer in currentTracks when it succeeded, in the source
\* with currentTracks unchanged when it reported a failure.
C1_MoveExactlyOne ==
    [][ /\ (/\ ~mv.active /\ Returns("moveTrack") /\ last'.apiFailed
            /\ In(server, selectedPlaylist.id, last'.track)
            /\ ~In(server, targetPlaylist.id, last'.track))
           => /\ In(server', selectedPlaylist.id, last'.track)
              /\ ~In(server', targetPlaylist.id, last'.track)
              /\ currentTracks' = currentTracks
        /\ (/\ mv.active /\ mv.trackWasAdded
            /\ Count(server.lists[mv.target], getOperationalUri(mv.track)) = 1
            /\ In(server, mv.source, mv.track))
           => /\ In(server', mv.source, mv.track) # In(server', mv.target, mv.track)
              /\ (last'.ok => /\ In(server', mv.target, mv.track)
                              /\ mv.track \notin Range(currentTracks'))
              /\ (~last'.ok => /\ In(server', mv.source, mv.track)
                               /\ currentTracks' = currentTracks) ]_vars

\* C2: when removeTrack succeeds, currentTracks and the returned list are the
\* input list without every entry of the removed track's id, the other tracks
\* in their original order.
C2_RemoveDeletes ==
    [][ (Returns("removeTrack") /\ last'.ok)
        => /\ IsDeletion(currentTracks', currentTracks, last'.track)
           /\ last'.returned = currentTracks' ]_vars

C2_Witness ==
    /\ last.op = "removeTrack" /\ last.ok
    /\ toasts = <<"success">>
    /\ currentTracks # <<>>
    /\ last.track \notin Range(currentTracks)

\* the index findNextPlayableTrack is expected to return: the first playable
\* index among i+d, i+2d, ..., i taken cyclically, -1 if there is none
CyclicFirst(tracks, i, d) ==
    LET n == Len(tracks)
        idx(k) == (i + d * k + n) % n
        hits == {k \in 1..n : isTrackPlayable(At(tracks, idx(k)))}
    IN IF hits = {} THEN -1
       ELSE idx(CHOOSE k \in hits : \A h \in hits : k <= h)

\* C5: for a non-empty list and a stored index i >= 0, playNextTrack and
\* playPreviousTrack find the first playable index when stepping cyclically
\* from i, find none (-1) exactly when no track of the list is playable, and
\* start the track found; with an empty list or i < 0 they do nothing.
C5_Navigation ==
    [][ (Returns("playNextTrack") \/ Returns("playPreviousTrack")) =>
        LET d == IF last'.op = "playNextTrack" THEN 1 ELSE -1
            tracks == currentTracks
            i == currentTrackIndex
        IN IF Len(tracks) = 0 \/ i < 0
           THEN UNCHANGED <<currentTracks, currentTrack, currentTrackIndex, isPlaying,
                            playbackPosition, server>>
           ELSE /\ (last'.found = -1
                      <=> \A k \in DOMAIN tracks : ~isTrackPlayable(tracks[k]))
                /\ (i < Len(tracks) => last'.found = CyclicFirst(tracks, i, d))
                /\ (last'.found # -1 =>
                      /\ last'.played = At(tracks, last'.found)
                      /\ isTrackPlayable(last'.played)
                      /\ (last'.playResult =>
                            /\ server'.nowPlaying = uri(last'.played)
                            /\ ~server'.paused)) ]_vars

\* the handlers that call playTrack
PlayTrackCallers == {"togglePlayPause", "removeTrack", "moveTrack"}

\* C6: when the play request of playTrack fails and the state check does not
\* confirm that the requested track is playing, playTrack returns false and
\* leaves currentTrack = null, currentTrackIndex = -1, isPlaying = false and
\* playbackPosition = 0; it returns true only if the request succeeded or the
\* playback of the track was confirmed.
C6_OptimisticRevert ==
    (last.op \in PlayTrackCallers /\ last.played # NoTrack) =>
        /\ (last.playFailed /\ ~last.confirmed =>
              /\ ~last.playResult
              /\ currentTrack = NoTrack
              /\ currentTrackIndex = -1
              /\ ~isPlaying
              /\ playbackPosition = 0)
        /\ (last.playResult => (~last.playFailed \/ last.confirmed))

C6_Witness ==
    /\ last.op = "togglePlayPause"
    /\ last.played # NoTrack /\ last.playFailed /\ ~last.confirmed
    /\ currentTrack = NoTrack
    /\ server.nowPlaying # NoUri

\* C7: when the add or remove request of removeTrack, moveTrack or copyTrack
\* fails, the operation returns the input list, leaves currentTracks,
\* currentTrack, currentTrackIndex and isPlaying unchanged and adds exactly
\* one toast, of type error.
C7_FailureLeavesStores ==
    [][ (last'.apiFailed /\ (handled' = handled + 1 \/ mv.active))
        => /\ last'.op \in {"removeTrack", "moveTrack", "copyTrack"}
           /\ ~last'.ok
           /\ last'.returned = (IF mv.active THEN mv.tracks ELSE currentTracks)
           /\ UNCHANGED <<currentTracks, currentTrack, currentTrackIndex, isPlaying>>
           /\ toasts' = <<"error">> ]_vars

C7_Witness ==
    /\ last.op = "moveTrack" /\ last.apiFailed
    /\ toasts = <<"error">>
    /\ currentTrack # NoTrack /\ isPlaying
    /\ last.returned = currentTracks /\ last.track \in Range(currentTracks)

\* C8: whatever its outcome, copyTrack returns the input list and leaves
\* currentTracks, currentTrack, currentTrackIndex, isPlaying and the source
\* playlist as they were; of the playlists, the stores and the playback it
\* changes the target playlist and the targetPlaylist store only, and it adds
\* toasts.
C8_CopyFrame ==
    [][ Returns("copyTrack")
        => /\ last'.returned = currentTracks
           /\ UNCHANGED <<currentTracks, currentTrack, currentTrackIndex, isPlaying,
                          playbackPosition, selectedPlaylist, playlists>>
           /\ (selectedPlaylist # NoPlaylistObject =>
                 server'.lists[selectedPlaylist.id] = server.lists[selectedPlaylist.id])
           /\ \A p \in PlaylistIds \ {targetPlaylist.id} :
                 server'.lists[p] = server.lists[p]
           /\ server'.nowPlaying = server.nowPlaying
           /\ server'.paused = server.paused
           /\ targetPlaylist'.id = targetPlaylist.id ]_vars

C8_Witness ==
    /\ last.op = "copyTrack" /\ last.ok
    /\ toasts = <<"success">>
    /\ selectedPlaylist # NoPlaylistObject
    /\ In(server, selectedPlaylist.id, last.track)
    /\ In(server, targetPlaylist.id, last.track)

\* C9: moveTrack adds the track to the target before it removes it from the
\* source and removes it only once the add step has completed without error:
\* in every step of a move the track stays in one of the two playlists, and
\* it leaves the source only when the target holds it.
C9_MoveNeverLoses ==
    [][ /\ (~mv.active /\ (Returns("moveTrack") \/ Returns("moveTrack:add")))
           => /\ (mv'.active => In(server', targetPlaylist.id, last'.track))
              /\ (In(server, selectedPlaylist.id, last'.track)
                    => In(server', selectedPlaylist.id, last'.track))
              /\ (In(server, targetPlaylist.id, last'.track)
                    => In(server', targetPlaylist.id, last'.track))
        /\ mv.active
           => /\ In(server, mv.target, mv.track)
              /\ In(server', mv.target, mv.track) ]_vars

C9_Witness ==
    /\ last.op = "moveTrack" /\ last.ok
    /\ toasts = <<"success">>
    /\ In(server, targetPlaylist.id, last.track)
    /\ ~In(server, selectedPlaylist.id, last.track)

\* C10: a move or a copy sends the add request only when the target playlist
\* does not hold the track, so it never adds a second entry of the track to
\* the target, and copyTrack reports 'already in' when the target holds it.
C10_NoDuplicateInTarget ==
    [][ (~mv.active /\ (Returns("moveTrack") \/ Returns("moveTrack:add")
                        \/ Returns("copyTrack")))
        => (In(server, targetPlaylist.id, last'.track)
              => /\ server'.lists[targetPlaylist.id] = server.lists[targetPlaylist.id]
                 /\ (last'.op = "copyTrack" => toasts' = <<"info">>)) ]_vars

\* ------------------------------------------------------------------------
\* Claims about the playback after a removal
\* ------------------------------------------------------------------------
\* removeTrack or moveTrack returns with success in this step, and the track
\* it took out of the list was the current track when it was called
RemovesCurrent ==
    \/ /\ ~mv.active /\ Returns("removeTrack") /\ last'.ok
       /\ currentTrack = last'.track
    \/ /\ mv.active /\ last'.op = "moveTrack" /\ last'.ok
       /\ mv.isCurrentlyPlaying

NonePlayable(tracks) == \A k \in DOMAIN tracks : ~isTrackPlayable(tracks[k])

\* C11: when removeTrack or moveTrack takes the current track out of the list
\* and the remaining list holds no playable track (an empty list included),
\* the playback state is cleared: currentTrack = null, currentTrackIndex = -1
\* and isPlaying = false.
C11_ClearedWhenNothingPlayable ==
    [][ (RemovesCurrent /\ NonePlayable(currentTracks'))
        => /\ currentTrack' = NoTrack
           /\ currentTrackIndex' = -1
           /\ ~isPlaying' ]_vars

\* the track the removal is expected to start: the one at min(i, len - 1) if
\* it is playable, else the first playable one after it in cyclic order
ExpectedSuccessor(updatedTracks, i) ==
    LET start == Min(i, Len(updatedTracks) - 1)
        first == CyclicFirst(updatedTracks, start, 1)
    IN IF isTrackPlayable(At(updatedTracks, start)) THEN At(updatedTracks, start)
       ELSE IF first = -1 THEN NoTrack
       ELSE At(updatedTracks, first)

LoggedOut ==
    /\ call.before.spotify_access_token # NoToken
    /\ accessToken = NoToken
    /\ localStorage.spotify_access_token = NoToken
    /\ localStorage.spotify_refresh_token = NoToken
    /\ localStorage.spotify_token_expires_at = NoTime

\* a refresh of the call that ran last failed: the accounts service refused
\* it, or there was no refresh token to send
RefreshFailed ==
    \/ \E i \in DOMAIN sent : sent[i].to = "accounts" /\ sent[i].status # 200
    \/ call.before.spotify_refresh_token = NoToken

\* C16: makeRequest clears the stored session only when a token refresh fails
\* or the retried request is again answered 401; a retry answered with
\* another error status leaves the stored tokens in place.
C16_LogoutOnlyOnAuthFailure ==
    (call.fn = "makeRequest" /\ LoggedOut)
        => \/ RefreshFailed
           \/ (Len(ApiExchanges) = 2 /\ ApiExchanges[2].status = 401)

\* ------------------------------------------------------------------------
\* SpecAuth: the token check and the wrapped calls of the components, one
\* call at a time, against servers that may refuse any request
\* ------------------------------------------------------------------------
\* a direct call of ensureValidToken (token manager, SDK token callback)
EnsureValidToken ==
    /\ \E rr \in RefreshResponses :
       \E e \in {ensureValidToken(World, now, rr)} :
          /\ (~NeedsRefresh(World, now) => rr = "fail")
          /\ e.w.issued <= MaxIssued
          /\ Commit(e.w)
          /\ sent' = e.w.sent
          /\ call' = [fn |-> "ensureValidToken", ok |-> e.token # NoToken,
                      value |-> EmptyObject, err |-> NoError, before |-> localStorage,
                      token |-> e.token, at |-> now]
    /\ UNCHANGED <<now, gp>>
    /\ UNCHANGED <<opsVars, svcVars, uiVars>>

\* the answers to a call that follows checkAndRefreshToken: its own
\* ensureValidToken finds the token valid and starts no refresh
WrappedScenarios == {sc \in Scenarios : sc.pre = "fail"}

\* a component calls handleAPIError(() => spotifyAPI.getPlaylistTracks(id))
HandleAPIError ==
    /\ \E rr1 \in (IF NeedsRefresh(World, now) THEN RefreshResponses ELSE {"fail"}),
          sc1 \in WrappedScenarios :
       \* the answers to a retry are chosen only when the wrapper retries
       \E first \in {handleAPIError(World, now, ApiCall("getPlaylistTracks", 1),
                                    rr1, sc1, "fail", DefaultScenario)} :
       \E rr2 \in (IF first.calls = 2 THEN RefreshResponses ELSE {"fail"}),
          sc2 \in (IF first.calls = 2 THEN WrappedScenarios ELSE {DefaultScenario}) :
       \E r \in {handleAPIError(World, now, ApiCall("getPlaylistTracks", 1),
                                rr1, sc1, rr2, sc2)} :
          /\ (r.calls = 0 => sc1 = DefaultScenario)
          /\ r.w.issued <= MaxIssued
          /\ Commit(r.w)
          /\ sent' = r.w.sent
          /\ call' = [fn |-> "handleAPIError", ok |-> r.ok, value |-> r.value,
                      err |-> r.err, before |-> localStorage, calls |-> r.calls]
    /\ UNCHANGED <<now, gp>>
    /\ UNCHANGED <<opsVars, svcVars, uiVars>>

NextAuth ==
    \/ EnsureValidToken
    \/ HandleAPIError
    \/ Tick

SpecAuth == InitReq /\ [][NextAuth]_vars

\* the stored expiry had passed, or was missing, when the call started
WasExpired ==
    \/ call.before.spotify_token_expires_at = NoTime
    \/ call.at >= call.before.spotify_token_expires_at

\* C13: ensureValidToken never returns a token whose stored expiry has passed
\* or is missing; for an expired token it returns the token of a successful
\* refresh; when the refresh fails it clears the token in memory and all the
\* stored credentials and returns null.
C13_NoExpiredToken ==
    call.fn = "ensureValidToken" =>
        /\ (call.token # NoToken =>
              /\ localStorage.spotify_token_expires_at # NoTime
              /\ call.at < localStorage.spotify_token_expires_at
              /\ accessToken = call.token
              /\ localStorage.spotify_access_token = call.token)
        /\ (call.token # NoToken /\ WasExpired =>
              /\ Len(sent) = 1 /\ sent[1].to = "accounts" /\ sent[1].status = 200
              /\ call.token = sent[1].text.id
              /\ call.token # call.before.spotify_access_token)
        /\ (call.before.spotify_access_token # NoToken /\ WasExpired /\ RefreshFailed =>
              /\ call.token = NoToken
              /\ accessToken = NoToken
              /\ localStorage = [spotify_access_token |-> NoToken,
                                 spotify_refresh_token |-> NoToken,
                                 spotify_token_expires_at |-> NoTime,
                                 spotify_code_verifier |-> FALSE])

C13_Witness ==
    /\ call.fn = "ensureValidToken"
    /\ WasExpired
    /\ call.token # NoToken
    /\ call.token # call.before.spotify_access_token

\* the wrapped call failed because the API answered its request with 401
FailedOn401 ==
    /\ Len(ApiExchanges) >= 1
    /\ ApiExchanges[1].status = 401
    /\ ~(call.calls = 1 /\ call.ok)

\* C15: when the call wrapped by handleAPIError fails because the server
\* answered 401, handleAPIError refreshes the token and invokes the call once
\* more, returning the result of the retry; for any other failure, or when
\* the retry fails, it returns null and does not throw.
C15_WrapperRetriesOn401 ==
    call.fn = "handleAPIError" =>
        /\ (FailedOn401 => call.calls = 2)
        /\ (~call.ok => call.err = NoError /\ call.value = EmptyObject)


\* ------------------------------------------------------------------------
\* SpecRefresh: ensureValidToken called by several callers at once.  Each
\* call is cut at the await of the request to the accounts service.
\* ------------------------------------------------------------------------
MaxRefreshes == 3

RefreshesSent == Cardinality({i \in DOMAIN refreshLog : refreshLog[i].kind = "sent"})

\* the accounts service has replaced this refresh token by a new one
Revoked(refreshToken) ==
    \E i \in DOMAIN refreshLog :
        /\ refreshLog[i].kind = "rotated"
        /\ refreshLog[i].refreshToken = refreshToken

\* refreshAccessToken() after the await: the answer is stored, or it throws
refreshAnswered(w, t, rr) ==
    LET fresh == w.issued + 1
        Stored(w1) ==
            [(IF rr = "rotate"
              THEN [w1 EXCEPT !.localStorage.spotify_refresh_token = fresh]
              ELSE w1)
             EXCEPT !.localStorage.spotify_token_expires_at = t + ExpiresIn]
    IN IF rr = "fail" THEN [ok |-> FALSE, w |-> w, token |-> NoToken]
       ELSE [ok |-> TRUE,
             w |-> Stored(setAccessToken([w EXCEPT !.issued = fresh], fresh)),
             token |-> fresh]

\* caller c calls ensureValidToken(); the call runs up to its first await
EnsureValidTokenBegin(c) ==
    /\ refreshing[c] = NoToken
    /\ LET inMemory == accessToken
           token == IF inMemory = NoToken THEN localStorage.spotify_access_token
                    ELSE inMemory
           w1 == IF inMemory = NoToken /\ token # NoToken
                 THEN [World EXCEPT !.accessToken = token] ELSE World
           refreshToken == localStorage.spotify_refresh_token
       IN IF token # NoToken /\ isTokenExpired(w1, now)
          THEN IF refreshToken = NoToken
               THEN /\ Commit(logout(w1))
                    /\ UNCHANGED <<refreshing, refreshLog>>
               ELSE /\ RefreshesSent < MaxRefreshes
                    /\ Commit(w1)
                    /\ refreshing' = [refreshing EXCEPT ![c] = refreshToken]
                    /\ refreshLog' = Append(refreshLog,
                            [caller |-> c, kind |-> "sent", refreshToken |-> refreshToken,
                             sentAt |-> Len(refreshLog) + 1])
          ELSE /\ Commit(w1)
               /\ UNCHANGED <<refreshing, refreshLog>>
    /\ UNCHANGED <<now, sent, call, gp>>
    /\ UNCHANGED <<init, runs, user, isAuthenticated, tm, doc, ev>>
    /\ UNCHANGED opsVars
    /\ UNCHANGED uiVars

\* the index in refreshLog of the request of caller c that is in flight
SentAt(c) ==
    CHOOSE i \in DOMAIN refreshLog :
        /\ refreshLog[i].caller = c /\ refreshLog[i].kind = "sent"
        /\ \A j \in DOMAIN refreshLog : refreshLog[j].caller = c => j <= i

\* the accounts service answers the request of caller c; ensureValidToken
\* returns the new token, or logs out and returns null
EnsureValidTokenComplete(c) ==
    /\ refreshing[c] # NoToken
    /\ \E rr \in (IF Revoked(refreshing[c]) THEN {"fail"} ELSE RefreshResponses) :
       \E r \in {refreshAnswered(World, now, rr)} :
          /\ r.w.issued <= MaxIssued
          /\ Commit(IF r.ok THEN r.w ELSE logout(r.w))
          /\ refreshLog' = Append(refreshLog,
                [caller |-> c,
                 kind |-> IF rr = "fail" THEN "failed"
                          ELSE IF rr = "rotate" THEN "rotated" ELSE "kept",
                 refreshToken |-> refreshing[c], sentAt |-> SentAt(c)])
    /\ refreshing' = [refreshing EXCEPT ![c] = NoToken]
    /\ UNCHANGED <<now, sent, call, gp>>
    /\ UNCHANGED <<init, runs, user, isAuthenticated, tm, doc, ev>>
    /\ UNCHANGED opsVars
    /\ UNCHANGED uiVars

NextRefresh ==
    \/ \E c \in Callers : EnsureValidTokenBegin(c)
    \/ \E c \in Callers : EnsureValidTokenComplete(c)
    \/ Tick

SpecRefresh == InitReq /\ [][NextRefresh]_vars

\* two callers have a request in flight that carries the same refresh token
SameTokenInFlight ==
    \E c1 \in Callers, c2 \in Callers :
        /\ c1 # c2
        /\ refreshing[c1] # NoToken
        /\ refreshing[c1] = refreshing[c2]

\* a refresh succeeded and an attempt that was in flight at that moment has
\* failed afterwards and logged the user out
LogoutAfterSuccess ==
    \E i \in DOMAIN refreshLog, j \in DOMAIN refreshLog :
        /\ refreshLog[i].kind \in {"rotated", "kept"}
        /\ refreshLog[j].kind = "failed"
        /\ i < j
        /\ refreshLog[j].sentAt < i

\* C14: when several callers find the token expired at the same time, no two
\* refresh requests carrying the same refresh token are in flight, and no
\* refresh that succeeded is followed by the logout of an attempt that
\* overlapped it.
C14_RefreshSingleFlight ==
    /\ ~SameTokenInFlight
    /\ ~LogoutAfterSuccess


\* ------------------------------------------------------------------------
\* TokenManager.  s is [tm |-> the fields of the manager, doc |-> the
\* document and window]; listeners and intervals are sets of identities.
\* ------------------------------------------------------------------------
MaxListeners == 2

\* an identity distinct from those in use: what bind() and setInterval() return
Fresh(used) == CHOOSE n \in 1..(Cardinality(used) + 1) : n \notin used

\* stopTokenCheck()
stopTokenCheck(s) ==
    IF s.tm.checkInterval # NoInterval
    THEN [s EXCEPT !.doc.intervals = @ \ {s.tm.checkInterval},
                   !.tm.checkInterval = NoInterval]
    ELSE s

\* startTokenCheck()
startTokenCheck(s) ==
    LET Started(s1) ==
            [s1 EXCEPT !.doc.intervals = @ \cup {Fresh(s1.doc.intervals)},
                       !.tm.checkInterval = Fresh(s1.doc.intervals)]
    IN Started(stopTokenCheck(s))

\* document.addEventListener('visibilitychange', listener)
addEventListener(s, listener) == [s EXCEPT !.doc.listeners = @ \cup {listener}]

\* document.removeEventListener('visibilitychange', listener)
removeEventListener(s, listener) == [s EXCEPT !.doc.listeners = @ \ {listener}]

\* tokenManager.initialize(): handleVisibilityChange.bind(this) is a new function
tokenManagerInitialize(s) ==
    startTokenCheck(addEventListener(s, Fresh(s.doc.listeners)))

\* tokenManager.destroy(): bind(this) makes another new function, which is
\* the one removeEventListener is asked to remove
tokenManagerDestroy(s) ==
    LET Stopped(s1) == removeEventListener(s1, Fresh(s1.doc.listeners))
    IN Stopped(stopTokenCheck(s))

\* handleVisibilityChange(), apart from the token check it starts
handleVisibilityChange(s) ==
    LET Seen(s1) == IF s1.tm.isVisible THEN startTokenCheck(s1) ELSE stopTokenCheck(s1)
    IN Seen([s EXCEPT !.tm.isVisible = ~s.doc.hidden])

\* every registered listener handles the event
RECURSIVE HandleAll(_, _)
HandleAll(s, n) == IF n = 0 THEN s ELSE HandleAll(handleVisibilityChange(s), n - 1)

\* checkTokenAndReconnect(), once for each answer in rrs: the session, and
\* whether handleAuthenticationFailure() ran
RECURSIVE CheckTokens(_, _, _)
CheckTokens(c, t, rrs) ==
    IF rrs = <<>> THEN c
    ELSE LET Checked(e) == CheckTokens([w |-> e.w,
                                       failed |-> c.failed \/ e.token = NoToken],
                                      t, Tail(rrs))
         IN Checked(ensureValidToken(c.w, t, Head(rrs)))

Browser == [tm |-> tm, doc |-> doc]

\* the token checks of one event, and what handleAuthenticationFailure resets
CommitChecks(c) ==
    /\ Commit(c.w)
    /\ sent' = c.w.sent
    /\ deviceId' = IF c.failed THEN FALSE ELSE deviceId
    /\ isPlaying' = IF c.failed THEN FALSE ELSE isPlaying
    /\ currentTrack' = IF c.failed THEN NoTrack ELSE currentTrack
    /\ playbackPosition' = IF c.failed THEN 0 ELSE playbackPosition
    /\ UNCHANGED <<now, call, gp>>
    /\ UNCHANGED <<playlists, selectedPlaylist, targetPlaylist, currentTracks,
                   currentTrackIndex, unplayable, toasts, mv, last, handled>>
    /\ UNCHANGED <<refreshing, refreshLog, init, runs, user, isAuthenticated>>
    /\ UNCHANGED uiVars

\* tokenManager.initialize()
TokenManagerInitialize ==
    /\ Cardinality(doc.listeners) < MaxListeners
    /\ \E s \in {tokenManagerInitialize(Browser)} :
          /\ tm' = s.tm
          /\ doc' = s.doc
    /\ ev' = [NoEvent EXCEPT !.op = "initialize"]
    /\ UNCHANGED <<reqVars, opsVars>>
    /\ UNCHANGED <<refreshing, refreshLog, init, runs, user, isAuthenticated>>
    /\ UNCHANGED uiVars

\* the tab is hidden or shown: document.hidden changes and visibilitychange fires
VisibilityChange ==
    \E hidden \in {~doc.hidden} :
    \E n \in {Cardinality(doc.listeners)} :
    \E rrs \in [1..(IF hidden THEN 0 ELSE n) -> RefreshResponses] :
    \E s \in {HandleAll([Browser EXCEPT !.doc.hidden = hidden], n)} :
    \E c \in {CheckTokens([w |-> World, failed |-> FALSE], now, rrs)} :
        /\ c.w.issued <= MaxIssued
        /\ tm' = s.tm
        /\ doc' = s.doc
        /\ ev' = [ev EXCEPT !.op = IF hidden THEN "hidden" ELSE "visible",
                            !.checks = Len(rrs)]
        /\ CommitChecks(c)

\* an interval set by startTokenCheck fires
TimerTick ==
    \E id \in doc.intervals :
    \E rrs \in [1..(IF tm.isVisible THEN 1 ELSE 0) -> RefreshResponses] :
    \E c \in {CheckTokens([w |-> World, failed |-> FALSE], now, rrs)} :
        /\ c.w.issued <= MaxIssued
        /\ ev' = [ev EXCEPT !.op = "timer", !.checks = Len(rrs)]
        /\ CommitChecks(c)
        /\ UNCHANGED <<tm, doc>>

\* tokenManager.destroy()
TokenManagerDestroy ==
    /\ \E s \in {tokenManagerDestroy(Browser)} :
          /\ tm' = s.tm
          /\ doc' = s.doc
    /\ ev' = [NoEvent EXCEPT !.op = "destroy", !.destroyed = TRUE]
    /\ UNCHANGED <<reqVars, opsVars>>
    /\ UNCHANGED <<refreshing, refreshLog, init, runs, user, isAuthenticated>>
    /\ UNCHANGED uiVars

NextTimer ==
    \/ TokenManagerInitialize
    \/ VisibilityChange
    \/ TimerTick
    \/ TokenManagerDestroy
    \/ Tick

SpecTimer == InitReq /\ [][NextTimer]_vars

\* C19: at most one token-check timer exists, none exists while the tab is
\* hidden, and a tab that has become visible has run a token check and has
\* exactly one timer, whatever the visibility changes and initialize() calls.
C19_OneTimerNoneHidden ==
    /\ Cardinality(doc.intervals) <= 1
    /\ (doc.hidden => doc.intervals = {})
    /\ (ev.op = "visible" /\ doc.listeners # {} =>
            ev.checks >= 1 /\ Cardinality(doc.intervals) = 1)

\* C20: after destroy() no timer is left and no visibility listener is
\* registered, and no visibility change or timer tick runs
\* checkTokenAndReconnect or starts a timer.
C20_DestroyStopsChecking ==
    ev.destroyed =>
        /\ doc.intervals = {}
        /\ tm.checkInterval = NoInterval
        /\ doc.listeners = {}
        /\ ev.checks = 0


\* ------------------------------------------------------------------------
\* InitializationService.  A run is one call of performInitialization or of
\* handleAuthentication, cut at its awaits; pc names the await it stands at.
\* ------------------------------------------------------------------------
FreeRuns == {r \in RunIds : runs[r].kind = "none"}

RunsInProgress(kind) == {r \in RunIds : runs[r].kind = kind}

\* a playlist object of GET /me/playlists
ListedPlaylist(srv, id) ==
    [id |-> id, total |-> IF id \in DOMAIN srv.lists THEN Len(srv.lists[id]) ELSE 0]

\* the playlistSelections store: the ids in the source and target links
Selections == {[source |-> NoPlaylist, target |-> NoPlaylist],
               [source |-> 1, target |-> 2]}

\* playlistsData.find(p => the link includes p.id); NoPlaylistObject if none
FindPlaylist(playlistsData, id) ==
    IF \E i \in DOMAIN playlistsData : playlistsData[i].id = id
    THEN playlistsData[CHOOSE i \in DOMAIN playlistsData :
                          /\ playlistsData[i].id = id
                          /\ \A j \in 1..(i - 1) : playlistsData[j].id # id]
    ELSE NoPlaylistObject

\* the run leaves loadUserDataAndPlaylists: webPlaybackService.initialize() is
\* awaited next, unless handleAuthentication finds the player ready
AfterLoad(run) ==
    IF run.kind = "auth" /\ deviceId THEN NoRunState
    ELSE [NoRunState EXCEPT !.pc = "sdk", !.kind = run.kind]

\* the fields of the service once the run has returned result
Finished(kind, result) ==
    IF kind = "init"
    THEN [init EXCEPT !.isInitialized = result, !.isInitializing = FALSE]
    ELSE [init EXCEPT !.isInitialized = TRUE]

\* the run has stepped to next; a run that has returned frees its slot
CommitRun(r, next, result) ==
    /\ runs' = [runs EXCEPT ![r] = next]
    /\ init' = IF next.kind = "none" THEN Finished(runs[r].kind, result) ELSE init

\* initializationService.initialize()
Initialize ==
    /\ IF init.isInitialized THEN
           /\ ev' = [NoEvent EXCEPT !.op = "initialize", !.returned = "true"]
           /\ UNCHANGED <<init, runs, tm, doc>>
       ELSE IF init.isInitializing /\ init.initializationPromise # NoRun THEN
           /\ ev' = [NoEvent EXCEPT !.op = "initialize", !.returned = "promise"]
           /\ UNCHANGED <<init, runs, tm, doc>>
       ELSE
           /\ Cardinality(doc.listeners) < MaxListeners
           /\ \E r \in FreeRuns, s \in {tokenManagerInitialize(Browser)} :
                 /\ \A q \in FreeRuns : r <= q
                 /\ init' = [init EXCEPT !.isInitializing = TRUE,
                                         !.initializationPromise = r]
                 /\ runs' = [runs EXCEPT ![r] =
                               [NoRunState EXCEPT !.pc = "token", !.kind = "init"]]
                 /\ tm' = s.tm
                 /\ doc' = s.doc
                 /\ ev' = [NoEvent EXCEPT !.op = "initialize", !.started = r,
                                          !.returned = "promise"]
    /\ UNCHANGED <<reqVars, opsVars>>
    /\ UNCHANGED <<refreshing, refreshLog, user, isAuthenticated>>
    /\ UNCHANGED uiVars

\* initializationService.handleAuthentication(accessToken), with the token
\* exchangeCodeForToken has stored
HandleAuthentication ==
    /\ localStorage.spotify_access_token # NoToken
    /\ \E r \in FreeRuns :
          /\ \A q \in FreeRuns : r <= q
          /\ runs' = [runs EXCEPT ![r] =
                        [NoRunState EXCEPT !.pc = "user", !.kind = "auth"]]
          /\ ev' = [NoEvent EXCEPT !.op = "handleAuthentication", !.started = r]
    /\ Commit(setAccessToken(World, localStorage.spotify_access_token))
    /\ isAuthenticated' = TRUE
    /\ UNCHANGED <<now, sent, call, gp>>
    /\ UNCHANGED <<refreshing, refreshLog, init, user, tm, doc>>
    /\ UNCHANGED opsVars
    /\ UNCHANGED uiVars

\* performInitialization: await spotifyAPI.ensureValidToken()
RunToken(r) ==
    /\ runs[r].pc = "token"
    /\ \E rr \in (IF NeedsRefresh(World, now) THEN RefreshResponses ELSE {"fail"}) :
       \E e \in {ensureValidToken(World, now, rr)} :
          /\ e.w.issued <= MaxIssued
          /\ Commit(e.w)
          /\ isAuthenticated' = (e.token # NoToken)
          /\ CommitRun(r, IF e.token = NoToken THEN NoRunState
                          ELSE [runs[r] EXCEPT !.pc = "user"], FALSE)
    /\ ev' = [ev EXCEPT !.op = "run", !.started = NoRun, !.returned = "none"]
    /\ UNCHANGED <<now, sent, call, gp>>
    /\ UNCHANGED <<refreshing, refreshLog, user, tm, doc>>
    /\ UNCHANGED opsVars
    /\ UNCHANGED uiVars

\* loadUserDataAndPlaylists: await spotifyAPI.getCurrentUser()
RunUser(r) ==
    /\ runs[r].pc = "user"
    /\ \E sc \in ScenariosFor(World, now) :
       \E userInfo \in {makeRequest(World, now,
                                    Request("GET", UserRoute, 0, NoPlaylist, NoUri), sc)} :
          /\ userInfo.w.issued <= MaxIssued
          /\ Commit(userInfo.w)
          /\ user' = IF userInfo.ok THEN TRUE ELSE user
          /\ CommitRun(r, IF userInfo.ok
                          THEN [runs[r] EXCEPT !.pc = "playlists",
                                   !.url = [path |-> PlaylistsRoute, offset |-> 0]]
                          ELSE AfterLoad(runs[r]), TRUE)
    /\ ev' = [ev EXCEPT !.op = "run", !.started = NoRun, !.returned = "none"]
    /\ UNCHANGED <<now, sent, call, gp>>
    /\ UNCHANGED <<refreshing, refreshLog, isAuthenticated, tm, doc>>
    /\ UNCHANGED opsVars
    /\ UNCHANGED uiVars

\* loadUserDataAndPlaylists: one iteration of the loop of getUserPlaylists;
\* after the last one the stores are set and the selections restored
RunPlaylists(r) ==
    /\ runs[r].pc = "playlists"
    /\ \E sc \in ScenariosFor(World, now), selections \in Selections :
       \E response \in {makeRequest(World, now,
                            Request("GET", runs[r].url.path, runs[r].url.offset,
                                    NoPlaylist, NoUri), sc)} :
       LET pageCount == runs[r].pageCount + 1
           allPlaylists == runs[r].allPlaylists \o response.value.items
           url == IF response.value.next # NoUrl
                  THEN NextPageEndpoint(response.value.next) ELSE NoUrl
           playlistsData == [i \in DOMAIN allPlaylists |->
                                ListedPlaylist(response.w.server, allPlaylists[i])]
           sourcePlaylist == FindPlaylist(playlistsData, selections.source)
           targetPlaylistData == FindPlaylist(playlistsData, selections.target)
       IN /\ response.w.issued <= MaxIssued
          /\ Commit(response.w)
          /\ IF ~response.ok \/ ~response.value.hasItems THEN
                /\ selections.source = NoPlaylist
                /\ CommitRun(r, AfterLoad(runs[r]), TRUE)
                /\ UNCHANGED <<playlists, selectedPlaylist, targetPlaylist>>
             ELSE IF url # NoUrl /\ pageCount <= MaxPlaylistPages THEN
                /\ selections.source = NoPlaylist
                /\ CommitRun(r, [runs[r] EXCEPT !.url = url, !.pageCount = pageCount,
                                                !.allPlaylists = allPlaylists], TRUE)
                /\ UNCHANGED <<playlists, selectedPlaylist, targetPlaylist>>
             ELSE
                /\ CommitRun(r, AfterLoad(runs[r]), TRUE)
                /\ playlists' = playlistsData
                /\ selectedPlaylist' = IF sourcePlaylist # NoPlaylistObject
                                       THEN sourcePlaylist ELSE selectedPlaylist
                /\ targetPlaylist' = IF targetPlaylistData # NoPlaylistObject
                                     THEN targetPlaylistData ELSE targetPlaylist
    /\ ev' = [ev EXCEPT !.op = "run", !.started = NoRun, !.returned = "none"]
    /\ UNCHANGED <<now, sent, call, gp>>
    /\ UNCHANGED <<refreshing, refreshLog, user, isAuthenticated, tm, doc>>
    /\ UNCHANGED <<currentTracks, currentTrack, currentTrackIndex, isPlaying,
                   playbackPosition, deviceId, unplayable, toasts, mv, last, handled>>
    /\ UNCHANGED uiVars

\* await webPlaybackService.initialize(): resolved or rejected, the run returns
RunSdk(r) ==
    /\ runs[r].pc = "sdk"
    /\ CommitRun(r, NoRunState, TRUE)
    /\ ev' = [ev EXCEPT !.op = "run", !.started = NoRun, !.returned = "none"]
    /\ UNCHANGED <<reqVars, opsVars>>
    /\ UNCHANGED <<refreshing, refreshLog, user, isAuthenticated, tm, doc>>
    /\ UNCHANGED uiVars

\* reset(), apart from libraryService and targetPlaylistService
ResetStores ==
    /\ init' = [isInitialized |-> FALSE, isInitializing |-> FALSE,
                initializationPromise |-> NoRun]
    /\ isAuthenticated' = FALSE
    /\ user' = FALSE
    /\ playlists' = <<>>
    /\ selectedPlaylist' = NoPlaylistObject
    /\ targetPlaylist' = NoPlaylistObject
    /\ UNCHANGED reqVars
    /\ UNCHANGED <<refreshing, refreshLog, runs>>
    /\ UNCHANGED <<currentTracks, currentTrack, currentTrackIndex, isPlaying,
                   playbackPosition, unplayable, toasts, mv, last, handled>>
    /\ UNCHANGED uiVars

\* initializationService.reset()
Reset ==
    /\ ResetStores
    /\ ev' = [ev EXCEPT !.op = "reset", !.started = NoRun, !.returned = "none",
                        !.afterReset = TRUE]
    /\ UNCHANGED <<tm, doc, deviceId>>

\* initializationService.destroy()
Destroy ==
    /\ ResetStores
    /\ \E s \in {tokenManagerDestroy(Browser)} :
          /\ tm' = s.tm
          /\ doc' = s.doc
    /\ deviceId' = FALSE
    /\ ev' = [ev EXCEPT !.op = "destroy", !.started = NoRun, !.returned = "none",
                        !.afterReset = TRUE, !.destroyed = TRUE]

NextInit ==
    \/ Initialize
    \/ HandleAuthentication
    \/ \E r \in RunIds : RunToken(r)
    \/ \E r \in RunIds : RunUser(r)
    \/ \E r \in RunIds : RunPlaylists(r)
    \/ \E r \in RunIds : RunSdk(r)
    \/ Reset
    \/ Destroy

\* the user has logged in, with playlists that fill more than one page
InitInit ==
    /\ \E withRefreshToken \in BOOLEAN : FreshSession(withRefreshToken)
    /\ server = [userPlaylists |-> [i \in 1..(PageSize + 1) |-> i],
                 lists |-> [p \in PlaylistIds |-> <<>>],
                 nowPlaying |-> NoUri, paused |-> TRUE]
    /\ sent = <<>>
    /\ call = [fn |-> "none", ok |-> FALSE, value |-> EmptyObject, err |-> NoError,
               before |-> localStorage]
    /\ gp = GpIdle
    /\ OpsAtRest

SpecInit == InitInit /\ [][NextInit]_vars

\* C17: a call of initialize() that overlaps an initialization in progress
\* starts no second performInitialization: at most one is in progress.
C17_SingleFlight == Cardinality(RunsInProgress("init")) <= 1

\* C18: from the return of reset() until initialize() or handleAuthentication()
\* is called again, isAppInitialized() is false and the user, playlists,
\* selectedPlaylist and targetPlaylist stores are empty.
C18_ResetIsFinal ==
    ev.afterReset =>
        /\ ~init.isInitialized
        /\ user = FALSE
        /\ playlists = <<>>
        /\ selectedPlaylist = NoPlaylistObject
        /\ targetPlaylist = NoPlaylistObject


\* ------------------------------------------------------------------------
\* WebPlaybackService.  A player is known by an identity; wp.connected holds
\* the players the SDK keeps connected, wp.readying those whose ready
\* listener awaits waitForDeviceRegistration.
\* ------------------------------------------------------------------------
MaxPlayers == 2

PlayersInUse == wp.connected \cup wp.readying \cup ({wp.player} \ {NoPlayer})

\* setupPlayer(): new Spotify.Player, listeners, connect()
setupPlayer(s, token) ==
    IF token = NoToken THEN s
    ELSE [s EXCEPT !.player = Fresh(PlayersInUse),
                   !.connected = @ \cup {Fresh(PlayersInUse)}]

\* initialize(), with the SDK script loaded
webInitialize(s, token) == IF s.isInitialized THEN s ELSE setupPlayer(s, token)

\* disconnect(): s is the service, d its deviceId
webDisconnect(s, d) ==
    IF s.player # NoPlayer
    THEN [wp |-> [s EXCEPT !.connected = @ \ {s.player}, !.player = NoPlayer,
                           !.isInitialized = FALSE],
          deviceId |-> FALSE]
    ELSE [wp |-> s, deviceId |-> d]

\* what a call of the service leaves alone
WebFrame ==
    /\ UNCHANGED <<reqVars, svcVars>>
    /\ UNCHANGED <<playlists, selectedPlaylist, targetPlaylist, currentTracks,
                   currentTrackIndex, unplayable, toasts, mv, last, handled>>
    /\ UNCHANGED <<repeatMode, repeatStorage, isShuffleOn, originalTrackOrder, cmp, polls>>

\* webPlaybackService.initialize()
WebInitialize ==
    /\ Cardinality(PlayersInUse) < MaxPlayers
    /\ wp' = webInitialize(wp, accessToken)
    /\ ui' = [NoUi EXCEPT !.op = "initialize"]
    /\ UNCHANGED <<deviceId, currentTrack, isPlaying, playbackPosition, trackDuration>>
    /\ WebFrame

\* the SDK reports player p ready: the listener runs up to its await
Ready(p) ==
    /\ p \in wp.connected \ wp.readying
    /\ deviceId' = TRUE
    /\ wp' = [wp EXCEPT !.readying = @ \cup {p}]
    /\ ui' = [ui EXCEPT !.op = "ready"]
    /\ UNCHANGED <<currentTrack, isPlaying, playbackPosition, trackDuration>>
    /\ WebFrame

\* one iteration of waitForDeviceRegistration for the listener of player p:
\* the device is listed, or it is not and the wait goes on or times out, or
\* getAvailableDevices throws; then the rest of the ready listener
Registered(p) ==
    /\ p \in wp.readying
    /\ \E sc \in ScenariosFor(World, now), listed \in BOOLEAN, timedOut \in BOOLEAN :
       \E devices \in {makeRequest(World, now,
                          Request("GET", DevicesRoute, 0, NoPlaylist, NoUri), sc)} :
          /\ devices.w.issued <= MaxIssued
          /\ (~devices.ok => ~listed /\ ~timedOut)
          /\ (listed => ~timedOut)
          /\ Commit(devices.w)
          /\ wp' = IF ~devices.ok THEN [wp EXCEPT !.readying = @ \ {p}]
                   ELSE IF listed \/ timedOut
                   THEN [wp EXCEPT !.readying = @ \ {p}, !.isInitialized = TRUE]
                   ELSE wp
          /\ deviceId' = IF devices.ok /\ listed THEN TRUE ELSE deviceId
    /\ ui' = [ui EXCEPT !.op = "registered"]
    /\ UNCHANGED <<now, sent, call, gp>>
    /\ UNCHANGED svcVars
    /\ UNCHANGED <<playlists, selectedPlaylist, targetPlaylist, currentTracks, currentTrack,
                   currentTrackIndex, isPlaying, playbackPosition, unplayable, toasts, mv,
                   last, handled>>
    /\ UNCHANGED <<repeatMode, repeatStorage, isShuffleOn, originalTrackOrder,
                   trackDuration, cmp, polls>>

\* webPlaybackService.disconnect()
Disconnect ==
    /\ \E d \in {webDisconnect(wp, deviceId)} :
          /\ wp' = d.wp
          /\ deviceId' = d.deviceId
    /\ ui' = [NoUi EXCEPT !.op = "disconnect", !.disconnected = TRUE]
    /\ UNCHANGED <<currentTrack, isPlaying, playbackPosition, trackDuration>>
    /\ WebFrame

\* webPlaybackService.handleAuthenticationFailure()
HandleAuthenticationFailure ==
    /\ \E d \in {webDisconnect(wp, deviceId)} :
          /\ wp' = d.wp
          /\ deviceId' = d.deviceId
    /\ isPlaying' = FALSE
    /\ currentTrack' = NoTrack
    /\ playbackPosition' = 0
    /\ trackDuration' = 0
    /\ ui' = [NoUi EXCEPT !.op = "handleAuthenticationFailure", !.disconnected = TRUE]
    /\ WebFrame

\* webPlaybackService.reconnect()
Reconnect ==
    /\ Cardinality(PlayersInUse) < MaxPlayers
    /\ IF wp.isInitialized
       THEN /\ UNCHANGED <<wp, deviceId>>
            /\ ui' = [ui EXCEPT !.op = "reconnect"]
       ELSE \E d \in {webDisconnect(wp, deviceId)} :
            /\ wp' = webInitialize(d.wp, accessToken)
            /\ deviceId' = d.deviceId
            /\ ui' = [NoUi EXCEPT !.op = "reconnect"]
    /\ UNCHANGED <<currentTrack, isPlaying, playbackPosition, trackDuration>>
    /\ WebFrame

NextWeb ==
    \/ WebInitialize
    \/ \E p \in 1..MaxPlayers : Ready(p)
    \/ \E p \in 1..MaxPlayers : Registered(p)
    \/ Disconnect
    \/ HandleAuthenticationFailure
    \/ Reconnect

SpecWeb == InitInit /\ [][NextWeb]_vars

\* C21: the service is never marked initialized without a player, and after
\* disconnect() or handleAuthenticationFailure() the player, the device id and
\* isInitialized stay cleared until initialize() is called again, so that
\* reconnect() does not take a disconnected service for a connected one.
C21_InitializedHasPlayer ==
    /\ (wp.isInitialized => wp.player # NoPlayer)
    /\ (ui.disconnected => wp.player = NoPlayer /\ ~deviceId /\ ~wp.isInitialized)


\* ------------------------------------------------------------------------
\* The repeat mode store (src/lib/stores.ts)
\* ------------------------------------------------------------------------
RepeatModes == {"off", "playlist", "track"}

\* localStorage.getItem('motify-repeat-mode'): null, a mode, or another string
StoredModes == RepeatModes \cup {"missing", "invalid"}

\* a store that writes the mode without saving it
repeatModeSet_Forget(stored, value) == [storage |-> stored, mode |-> value]

\* createRepeatModeStore(): the initial mode
createRepeatModeStore(storedMode) ==
    IF storedMode \in RepeatModes THEN storedMode ELSE "off"

\* repeatMode.set(value): localStorage.setItem, then set
repeatModeSet(stored, value) == [storage |-> value, mode |-> value]

\* ------------------------------------------------------------------------
\* The Player component (src/lib/components/Player.svelte)
\* ------------------------------------------------------------------------
\* state.position / 1000, progress_ms / 1000
Positions == 0..TrackLength

\* spotifyAPI.setRepeatMode(state): PUT /me/player/repeat
setRepeatMode(w, t, sc) ==
    makeRequest(w, t, Request("PUT", RepeatRoute, 0, NoPlaylist, NoUri), sc)

\* spotifyAPI.seekToPosition(positionMs): PUT /me/player/seek
seekToPosition(w, t, sc) ==
    makeRequest(w, t, Request("PUT", SeekRoute, 0, NoPlaylist, NoUri), sc)

\* what a handler of the component reads and writes, threaded through it
PlayerState ==
    [st |-> Stores, tracks |-> currentTracks, duration |-> trackDuration, c |-> cmp,
     w |-> World, advanced |-> 0]

\* the reactive statements on $currentTrack, $currentTracks and $repeatMode
Tracked(p, mode) ==
    LET Noted(s) ==
            LET c1 == IF s.currentTrack # NoTrack /\ s.currentTrack # p.c.lastTrackedTrackId
                      THEN [p.c EXCEPT !.lastTrackedTrackId = s.currentTrack,
                                       !.hasHandledEnd = FALSE]
                      ELSE p.c
            IN [p EXCEPT !.st = s,
                         !.c = IF mode # c1.lastTrackedRepeatMode
                               THEN [c1 EXCEPT !.lastTrackedRepeatMode = mode,
                                               !.hasHandledEnd = FALSE]
                               ELSE c1]
    IN Noted(SyncIndex(p.st, p.tracks))

\* syncSpotifyRepeatMode()
syncSpotifyRepeatMode(p, mode, t, ready, sc) ==
    LET Synced(r) ==
            IF r.ok
            THEN [p EXCEPT !.w = r.w, !.c.lastSyncedMode = mode, !.c.hasHandledEnd = FALSE]
            ELSE [p EXCEPT !.w = r.w]
    IN IF ~ready \/ p.st.currentTrack = NoTrack \/ ~p.st.isPlaying
          \/ p.c.lastSyncedMode = mode
       THEN p
       ELSE Synced(setRepeatMode(p.w, t, sc))

\* playNextTrack(stores, services, isPlayerReady, ...) as the component calls it
playNextTrack(p, t, ready, env) ==
    LET Next(nextIndex) ==
            LET Played(r) ==
                    [p EXCEPT !.w = r.w,
                              !.st = [@ EXCEPT
                                  !.playbackPosition = 0,
                                  !.currentTrackIndex = nextIndex,
                                  !.currentTrack = IF ~ready /\ r.ok
                                                   THEN At(p.tracks, nextIndex) ELSE @]]
            IN IF nextIndex = -1 THEN p
               ELSE Played(IF ready
                           THEN webPlaybackPlay(p.w, t, ready, uri(At(p.tracks, nextIndex)),
                                                env.s1, env.s2, env.resumeOk)
                           ELSE apiPlayTrack(p.w, t, uri(At(p.tracks, nextIndex)), env.s1))
    IN IF Len(p.tracks) = 0 \/ p.st.currentTrackIndex < 0 THEN p
       ELSE Next(findNextPlayableTrack(p.tracks, p.st.currentTrackIndex, 1))

\* $playbackPosition >= $trackDuration - 2
NearEnd(position, duration) == position >= duration - 2

\* $playbackPosition >= $trackDuration - 0.5
AtEnd(position, duration) == 2 * position >= 2 * duration - 1

\* the reactive statement on the end of the track, with handlePlaylistAdvance,
\* nextTrack and handleTrackEnd (whose timer stops the playback)
EndOfTrack(p, mode, t, ready, env, sc) ==
    LET Advanced(next) == syncSpotifyRepeatMode(Tracked(next, mode), mode, t, ready, sc)
    IN IF p.st.isPlaying /\ p.duration > 0 /\ ~p.c.hasHandledEnd
       THEN IF mode = "playlist" /\ NearEnd(p.st.playbackPosition, p.duration)
            THEN Advanced(playNextTrack([p EXCEPT !.c.hasHandledEnd = TRUE,
                                                  !.advanced = @ + 1], t, ready, env))
            ELSE IF mode = "off" /\ AtEnd(p.st.playbackPosition, p.duration)
            THEN [p EXCEPT !.c.hasHandledEnd = TRUE, !.st.isPlaying = FALSE]
            ELSE p
       ELSE p

\* the component after a change of the stores: the reactive statements run,
\* the repeat mode is synchronised, and the end of the track is looked at
\* again when the synchronisation has reset hasHandledEnd
Flushed(p, mode, t, ready, env, sc) ==
    LET Again(ended, synced) ==
            IF synced.c.hasHandledEnd = ended.c.hasHandledEnd THEN synced
            ELSE EndOfTrack(synced, mode, t, ready, env, sc)
        Ended(ended) == Again(ended, syncSpotifyRepeatMode(ended, mode, t, ready, sc))
    IN Ended(EndOfTrack(Tracked(p, mode), mode, t, ready, env, sc))

\* the stores, the component and the session once the handler has returned
CommitPlayer(p) ==
    /\ p.w.issued <= MaxIssued
    /\ CommitStores(p.st, p.tracks)
    /\ trackDuration' = p.duration
    /\ cmp' = p.c
    /\ Commit(p.w)


\* what the handlers of the component leave alone
PlayerFrame ==
    /\ UNCHANGED <<now, sent, call, gp>>
    /\ UNCHANGED svcVars
    /\ UNCHANGED <<playlists, selectedPlaylist, targetPlaylist, deviceId, unplayable,
                   toasts, mv, last, handled, wp>>

\* the answers to the requests of one handler of the component
PlayerEnvs ==
    {env \in PlayEnvsFor(deviceId) :
        /\ env.sdkState /\ env.s3 = DefaultScenario
        /\ (~isPlayerReady => env.s2 = DefaultScenario /\ env.resumeOk)}

\* what the handler did: whether it brought the playing track within 2 s of
\* its end in 'playlist' mode, and how often handlePlaylistAdvance ran nextTrack
Event(op, mode, p, q) ==
    [NoUi EXCEPT
        !.op = op,
        !.near = /\ mode = "playlist"
                 /\ isPlaying /\ p.st.isPlaying
                 /\ currentTrack # NoTrack /\ p.st.currentTrack = currentTrack
                 /\ trackDuration > 0 /\ p.duration = trackDuration
                 /\ ~NearEnd(playbackPosition, trackDuration)
                 /\ NearEnd(p.st.playbackPosition, p.duration),
        !.advanced = q.advanced]

\* the stores are written as p says, the component reacts, the handler returns
Handle(op, mode, p) ==
    /\ \E env \in IF mode = "playlist" /\ NearEnd(p.st.playbackPosition, p.duration)
                   THEN PlayerEnvs ELSE {DefaultEnv},
          sc \in IF isPlayerReady /\ p.c.lastSyncedMode # mode
                 THEN OpsScenarios ELSE {DefaultScenario} :
       \E q \in {Flushed(p, mode, now, isPlayerReady, env, sc)} :
          /\ CommitPlayer(q)
          /\ ui' = Event(op, mode, p, q)
    /\ PlayerFrame

\* the choice of a source playlist: loadTracks
PlayerSelectPlaylist ==
    /\ SelectPlaylistStores
    /\ ui' = [NoUi EXCEPT !.op = "selectPlaylist"]
    /\ UNCHANGED <<wp, repeatMode, repeatStorage, isShuffleOn, originalTrackOrder,
                   trackDuration, cmp, polls>>

\* the interval callbacks up to their await: updatePlaybackState for the API
\* polling fallback, the callback of startPositionUpdates for the SDK
PollBegin(kind) ==
    /\ kind \notin polls
    /\ ~cmp.isDragging
    /\ IF kind = "api" THEN ~isPlayerReady ELSE isPlayerReady /\ isPlaying
    /\ polls' = polls \cup {kind}
    /\ ui' = [NoUi EXCEPT !.op = "pollBegin"]
    /\ UNCHANGED <<accessToken, localStorage, issued, server>>
    /\ UNCHANGED <<currentTracks, currentTrack, currentTrackIndex, isPlaying, playbackPosition>>
    /\ UNCHANGED <<repeatMode, repeatStorage, isShuffleOn, originalTrackOrder,
                   trackDuration, cmp>>
    /\ PlayerFrame

\* updatePlaybackState once getPlaybackState has answered
ApiPollComplete ==
    /\ "api" \in polls
    /\ polls' = polls \ {"api"}
    /\ \E position \in Positions, s0 \in OpsScenarios :
       \E state \in {getPlaybackState(World, now, s0)} :
          Handle("apiPoll", repeatMode,
                 IF state.ok /\ state.value.track # NoTrack
                 THEN [PlayerState EXCEPT
                          !.w = state.w,
                          !.st = [@ EXCEPT !.currentTrack = TrackOfUri(state.value.track),
                                           !.isPlaying = state.value.playing,
                                           !.playbackPosition = position],
                          !.duration = TrackLength]
                 ELSE [PlayerState EXCEPT !.w = state.w])
    /\ UNCHANGED <<currentTracks, repeatMode, repeatStorage, isShuffleOn, originalTrackOrder>>

\* the callback of startPositionUpdates once getCurrentState has answered
SdkPollComplete ==
    /\ "sdk" \in polls
    /\ polls' = polls \ {"sdk"}
    /\ \E newPosition \in Positions :
          Handle("sdkPoll", repeatMode,
                 IF /\ wp.player # NoPlayer
                    /\ server.nowPlaying # NoUri
                    /\ currentTrack # NoTrack
                    /\ uri(currentTrack) = server.nowPlaying
                    /\ \/ newPosition >= playbackPosition - 2
                       \/ newPosition - playbackPosition > 5
                       \/ playbackPosition - newPosition > 5
                 THEN [PlayerState EXCEPT !.st.playbackPosition = newPosition]
                 ELSE PlayerState)
    /\ UNCHANGED <<currentTracks, repeatMode, repeatStorage, isShuffleOn, originalTrackOrder>>

\* the 'player_state_changed' listener with the component mounted
PlayerStateEvent ==
    /\ deviceId
    /\ server.nowPlaying # NoUri
    /\ \E position \in Positions :
          Handle("player_state_changed", repeatMode,
                 [PlayerState EXCEPT
                     !.st = [@ EXCEPT
                         !.currentTrack = IF currentTrack = NoTrack
                                             \/ uri(currentTrack) # server.nowPlaying
                                          THEN TrackOfUri(server.nowPlaying) ELSE currentTrack,
                         !.isPlaying = ~server.paused,
                         !.playbackPosition = position],
                     !.duration = TrackLength])
    /\ UNCHANGED <<currentTracks, repeatMode, repeatStorage, isShuffleOn, originalTrackOrder,
                   polls>>

\* handleSeekStart: mousedown / touchstart on the progress bar
HandleSeekStart ==
    /\ cmp' = [cmp EXCEPT !.isDragging = TRUE]
    /\ ui' = [NoUi EXCEPT !.op = "handleSeekStart"]
    /\ UNCHANGED <<accessToken, localStorage, issued, server>>
    /\ UNCHANGED <<currentTracks, currentTrack, currentTrackIndex, isPlaying, playbackPosition>>
    /\ UNCHANGED <<repeatMode, repeatStorage, isShuffleOn, originalTrackOrder,
                   trackDuration, polls>>
    /\ PlayerFrame

\* handleSeek: the change event of the progress bar
HandleSeek ==
    /\ \E position \in Positions, s0 \in OpsScenarios :
       \E sought \in {IF isPlayerReady THEN Returned(World, EmptyObject)
                      ELSE seekToPosition(World, now, s0)} :
          /\ position <= trackDuration
          /\ (isPlayerReady => s0 = DefaultScenario)
          /\ Handle("handleSeek", repeatMode,
                    [PlayerState EXCEPT !.w = sought.w,
                                        !.st.playbackPosition = position,
                                        !.c.isDragging = FALSE])
    /\ UNCHANGED <<currentTracks, repeatMode, repeatStorage, isShuffleOn, originalTrackOrder,
                   polls>>

\* cycleRepeatMode
CycleRepeatMode ==
    /\ \E newMode \in {IF repeatMode = "off" THEN "playlist"
                       ELSE IF repeatMode = "playlist" THEN "track" ELSE "off"} :
       \E written \in {repeatModeSet(repeatStorage, newMode)} :
          /\ repeatStorage' = written.storage
          /\ repeatMode' = written.mode
          /\ Handle("cycleRepeatMode", written.mode,
                    [PlayerState EXCEPT !.c.hasHandledEnd = FALSE])
    /\ UNCHANGED <<currentTracks, isShuffleOn, originalTrackOrder, polls>>


\* shuffleArray(array): a copy of the array in some order
shuffleArray(array) ==
    {[i \in DOMAIN array |-> array[f[i]]] : f \in Permutations(DOMAIN array)}

\* toggleShuffle
ToggleShuffle ==
    /\ IF ~isShuffleOn
       THEN /\ originalTrackOrder' = IF Len(originalTrackOrder) = 0 THEN currentTracks
                                     ELSE originalTrackOrder
            /\ \E shuffled \in shuffleArray(currentTracks) :
                  /\ currentTracks' = shuffled
                  /\ CommitStores(Stores, shuffled)
            /\ ui' = [NoUi EXCEPT !.op = "shuffleOn", !.unshuffled = currentTracks]
       ELSE /\ currentTracks' = IF Len(originalTrackOrder) > 0 THEN originalTrackOrder
                                ELSE currentTracks
            /\ CommitStores(Stores, currentTracks')
            /\ ui' = [NoUi EXCEPT !.op = "shuffleOff",
                                  !.unshuffled = IF ui.op = "shuffleOn" THEN ui.unshuffled
                                                 ELSE <<>>,
                                  !.direct = (ui.op = "shuffleOn")]
            /\ UNCHANGED originalTrackOrder
    /\ isShuffleOn' = ~isShuffleOn
    /\ UNCHANGED <<accessToken, localStorage, issued, server>>
    /\ UNCHANGED <<repeatMode, repeatStorage, trackDuration, cmp, polls>>
    /\ PlayerFrame

\* the component as mounted: the reactive statements have run once
Mounted(mode) == [CmpAtRest EXCEPT !.lastTrackedRepeatMode = mode]

\* the Web Playback SDK as the page finds it: ready with a device, or not
SdkLoaded(ready) ==
    [player |-> IF ready THEN 1 ELSE NoPlayer, isInitialized |-> ready,
     connected |-> IF ready THEN {1} ELSE {}, readying |-> {}]

\* the page is loaded again: the stores are created anew, the component is
\* mounted, and the SDK gets ready or the component falls back on the API
Reload ==
    /\ repeatMode' = createRepeatModeStore(repeatStorage)
    /\ cmp' = Mounted(repeatMode')
    /\ deviceId' \in BOOLEAN
    /\ wp' = SdkLoaded(deviceId')
    /\ selectedPlaylist' = NoPlaylistObject
    /\ targetPlaylist' = NoPlaylistObject
    /\ currentTracks' = <<>>
    /\ currentTrack' = NoTrack
    /\ currentTrackIndex' = -1
    /\ isPlaying' = FALSE
    /\ playbackPosition' = 0
    /\ trackDuration' = 0
    /\ isShuffleOn' = FALSE
    /\ originalTrackOrder' = <<>>
    /\ polls' = {}
    /\ toasts' = <<>>
    /\ last' = NoHandler
    /\ ui' = [NoUi EXCEPT !.op = "reload", !.direct = (ui.op = "cycleRepeatMode")]
    /\ UNCHANGED <<reqVars, svcVars>>
    /\ UNCHANGED <<playlists, unplayable, mv, handled, repeatStorage>>

\* The page as loaded, on an account on which a track is playing, with one
\* playlist of MaxLen tracks and one of a single track.
InitMounted ==
    /\ FreshSession(TRUE)
    /\ server = [userPlaylists |-> <<1, 2>>,
                 lists |-> [p \in PlaylistIds |-> IF p = 1 THEN NavSource ELSE NavOther],
                 nowPlaying |-> getOperationalUri(1), paused |-> FALSE]
    /\ unplayable = {}
    /\ StoresIdle
    /\ deviceId \in BOOLEAN
    /\ wp = SdkLoaded(deviceId)
    /\ repeatStorage \in StoredModes
    /\ repeatMode = createRepeatModeStore(repeatStorage)
    /\ isShuffleOn = FALSE
    /\ originalTrackOrder = <<>>
    /\ trackDuration = 0
    /\ cmp = Mounted(repeatMode)
    /\ polls = {}
    /\ ui = NoUi

\* SpecPlayer: the playback of one playlist followed by the component, in a
\* session that chooses the source playlist at most MaxLoads times.
MaxLoads == 1

LoadPlaylist ==
    /\ handled < MaxLoads
    /\ PlayerSelectPlaylist

InitPlayer ==
    /\ InitMounted
    /\ repeatStorage = "missing"

NextPlayer ==
    \/ LoadPlaylist
    \/ \E kind \in {"api", "sdk"} : PollBegin(kind)
    \/ ApiPollComplete
    \/ SdkPollComplete
    \/ PlayerStateEvent
    \/ HandleSeekStart
    \/ HandleSeek
    \/ CycleRepeatMode

SpecPlayer == InitPlayer /\ [][NextPlayer]_vars

\* SpecRepeat: the repeat mode over reloads of the page.
NextRepeat ==
    \/ CycleRepeatMode
    \/ Reload
    \/ \E kind \in {"api", "sdk"} : PollBegin(kind)
    \/ ApiPollComplete
    \/ SdkPollComplete
    \/ PlayerStateEvent

SpecRepeat == InitMounted /\ [][NextRepeat]_vars

\* SpecShuffle: shuffle over the choices of the source playlist.
NextShuffle ==
    \/ PlayerSelectPlaylist
    \/ ToggleShuffle
    \/ PlayerStateEvent

SpecShuffle == InitPlayer /\ [][NextShuffle]_vars

TypePlayer ==
    /\ repeatMode \in RepeatModes
    /\ repeatStorage \in StoredModes
    /\ playbackPosition \in Positions
    /\ trackDuration \in {0, TrackLength}
    /\ polls \subseteq {"api", "sdk"}
    /\ ui.advanced \in 0..2


\* C22: in 'playlist' repeat mode, every time the playing track comes within
\* 2 s of its end the player advances exactly once: handlePlaylistAdvance calls
\* nextTrack once, never zero times (a one-track list included) and never twice.
C22_AdvancesOnce == ui.near => ui.advanced = 1


\* C25: while the user drags the progress bar, no position poll overwrites
\* playbackPosition: a step in which a poll (the API polling fallback or the
\* SDK position poll, started before the drag or not) gets its answer while
\* isDragging is set leaves playbackPosition as it is.
C25_NoPollWriteWhileDragging ==
    [][(cmp.isDragging /\ cmp'.isDragging /\ polls' # polls /\ polls' \subseteq polls)
          => playbackPosition' = playbackPosition]_vars


\* the two sequences hold the same tracks, each as often
SameTracks(a, b) ==
    /\ Len(a) = Len(b)
    /\ \A x \in Range(a) \cup Range(b) :
          Cardinality({i \in DOMAIN a : a[i] = x}) = Cardinality({i \in DOMAIN b : b[i] = x})

\* C23: shuffle is reversible.  Switching shuffle on only permutes
\* currentTracks; switching it off right after restores the list as it was
\* before it was switched on; and after each toggle currentTrackIndex is the
\* position of the current track in the list.
C23_ShuffleReversible ==
    /\ (ui.op = "shuffleOn" => SameTracks(currentTracks, ui.unshuffled))
    /\ (ui.op = "shuffleOff" /\ ui.direct => currentTracks = ui.unshuffled)
    /\ (ui.op \in {"shuffleOn", "shuffleOff"} /\ currentTrack \in Range(currentTracks)
           => At(currentTracks, currentTrackIndex) = currentTrack)


====
